---- MODULE Spec2Model ----
(***************************************************************************)
(* A model of the levelforge grid core: the 32x32 semantic grid, the       *)
(* reachability validator, the foothold-chain level generator and the      *)
(* region refiner.                                                         *)
(*                                                                         *)
(* Conventions.  A grid is the flat row-major cell list of SemanticGrid32  *)
(* (index y * W + x, one byte per cell).  A position is <<x, y>>.  The     *)
(* float knobs (verticality, difficulty and the refine deltas) are kept   *)
(* as numerators over 8, which binary floating point represents exactly,   *)
(* so Python's round() on them is exact round-half-to-even.                *)
(***************************************************************************)
EXTENDS Integers, Sequences, FiniteSets, TLC

(***************************************************************************)
(* semantic_grid.py: cell flags and grid size                              *)
(***************************************************************************)
W == 32
H == 32
EMPTY == 0
SOLID == 1
ONEWAY == 2
HAZARD == 4
LADDER == 8
GOAL == 16
START == 32

NCells == W * H
CellIdx == 0 .. (NCells - 1)

Min2(a, b) == IF a <= b THEN a ELSE b
Max2(a, b) == IF a >= b THEN a ELSE b
Abs(a) == IF a < 0 THEN -a ELSE a
SetMin(S) == CHOOSE m \in S : \A n \in S : m <= n
SetMax(S) == CHOOSE m \in S : \A n \in S : m >= n

(* Bitwise operations on bytes, as Python's & | ~ act on the low 8 bits.   *)
(* NibbleAnd tabulates the bitwise and of two 4-bit values.                *)
BitAt(a, k) == (a \div (2 ^ k)) % 2
AndBits(a, b) ==
    BitAt(a, 0) * BitAt(b, 0) + 2 * BitAt(a, 1) * BitAt(b, 1)
    + 4 * BitAt(a, 2) * BitAt(b, 2) + 8 * BitAt(a, 3) * BitAt(b, 3)
NibbleAnd == [n \in 0 .. 255 |-> AndBits(n \div 16, n % 16)] @@ <<>>
\* int(flags) & 0xFF: the low byte of any Python int (two's complement)
ToByte(n) == n % 256
And(a, b) ==
    LET x == ToByte(a)
        y == ToByte(b)
    IN  NibbleAnd[(x % 16) * 16 + (y % 16)]
        + 16 * NibbleAnd[(x \div 16) * 16 + (y \div 16)]
Or(a, b) == ToByte(a) + ToByte(b) - And(a, b)
\* (cell & ~flags) & 0xFF
AndNot(a, b) == ToByte(a) - And(a, b)

(***************************************************************************)
(* SemanticGrid32                                                          *)
(***************************************************************************)
EmptyGrid == [i \in CellIdx |-> 0]

\* a bounds test that forgets the lower bounds
BelowUpperBounds(x, y) == x < W /\ y < H

\* _index: the bounds test that raises IndexError, and the flat index
InBounds(x, y) == 0 <= x /\ x < W /\ 0 <= y /\ y < H
Index(x, y) == y * W + x

Get(g, x, y) == g[Index(x, y)]
Set(g, x, y, flags) == [g EXCEPT ![Index(x, y)] = ToByte(flags)]
AddFlags(g, x, y, flags) == [g EXCEPT ![Index(x, y)] = ToByte(Or(@, flags))]
RemoveFlags(g, x, y, flags) == [g EXCEPT ![Index(x, y)] = ToByte(AndNot(@, flags))]
Fill(g, flags) == [i \in DOMAIN g |-> ToByte(flags)]
Clear(g) == [i \in DOMAIN g |-> 0]
Copy(g) == [i \in DOMAIN g |-> g[i]]

\* applyRect without its bounds test: a cell of the rectangle that lies off
\* the grid is written at the flat index ry * WIDTH + rx all the same
ApplyRectUnclipped(g, x, y, w, h, flags, mode) ==
    LET f == ToByte(flags)
        hit(i) == \E rx \in x .. (x + w - 1), ry \in y .. (y + h - 1) :
                     ry * W + rx = i
    IN  [i \in DOMAIN g |->
            IF ~hit(i) THEN g[i]
            ELSE IF mode = "overwrite" THEN f
            ELSE IF mode = "add" THEN ToByte(Or(g[i], f))
            ELSE ToByte(AndNot(g[i], f))]

\* applyRect: cells of the rectangle outside the grid are skipped
ApplyRect(g, x, y, w, h, flags, mode) ==
    LET f == ToByte(flags)
        inRect(i) == LET rx == i % W
                         ry == i \div W
                     IN  x <= rx /\ rx < x + w /\ y <= ry /\ ry < y + h
    IN  [i \in DOMAIN g |->
            IF ~inRect(i) THEN g[i]
            ELSE IF mode = "overwrite" THEN f
            ELSE IF mode = "add" THEN ToByte(Or(g[i], f))
            ELSE IF mode = "remove" THEN ToByte(AndNot(g[i], f))
            ELSE g[i]]

(***************************************************************************)
(* reachability.py: PlayerConfig, ReachabilityReport, ReachabilityValidator*)
(***************************************************************************)
PlayerConfig(ph, jh, jd, drop) ==
    [width |-> 1, height |-> ph, max_jump_height |-> jh,
     max_jump_distance |-> jd, max_safe_drop |-> drop]

NoPos == <<-1, -1>>

\* Python round() of the rational n / d (d > 0): round half to even
Round(n, d) ==
    LET q == n \div d
        r == n % d
    IN  IF 2 * r < d THEN q
        ELSE IF 2 * r > d THEN q + 1
        ELSE IF q % 2 = 0 THEN q ELSE q + 1

\* compute_standable_mask, one cell: rows 0 .. H-2 only
Standable(g, x, y) ==
    /\ y < H - 1
    /\ And(Get(g, x, y + 1), Or(SOLID, ONEWAY)) # 0
    /\ And(Get(g, x, y), Or(SOLID, HAZARD)) = 0

\* compute_clearance_mask, one cell: a body row above the grid fails
Clearance(g, cfg, x, y) ==
    \A dh \in 0 .. (cfg.height - 1) :
        y - dh >= 0 /\ And(Get(g, x, y - dh), SOLID) = 0

\* valid[y][x] = stand[y][x] and clear[y][x], as the set of valid positions
ValidSet(g, cfg) ==
    {<<i % W, i \div W>> : i \in
        {j \in CellIdx : Standable(g, j % W, j \div W)
                         /\ Clearance(g, cfg, j % W, j \div W)}}

\* _find_flag: the first cell in row-major order carrying the flag
FindFlag(g, flag) ==
    LET hits == {i \in CellIdx : And(g[i], flag) # 0}
    IN  IF hits = {} THEN NoPos
        ELSE LET i == SetMin(hits) IN <<i % W, i \div W>>

\* a body test that HAZARD fails as well
BodyClearOfHazard(g, cfg, ix, iy) ==
    \A dh \in 0 .. (cfg.height - 1) :
        LET cy == iy - dh
        IN  ~(0 <= cy /\ cy < H /\ 0 <= ix /\ ix < W
              /\ And(Get(g, ix, cy), Or(SOLID, HAZARD)) # 0)

\* body_clear inside _corridor_ok: out-of-grid body cells count as clear
BodyClear(g, cfg, ix, iy) ==
    \A dh \in 0 .. (cfg.height - 1) :
        LET cy == iy - dh
        IN  ~(0 <= cy /\ cy < H /\ 0 <= ix /\ ix < W
              /\ And(Get(g, ix, cy), SOLID) # 0)

\* a sweep that samples a vertical move at its target only
CorridorTargetOnly(g, cfg, x1, y1, x2, y2) ==
    LET dx == x2 - x1
    IN  IF dx = 0
        THEN BodyClear(g, cfg, x2, y2)
        ELSE \A k \in 0 .. Abs(dx) :
                LET step == IF dx > 0 THEN 1 ELSE -1
                    ix == x1 + step * k
                    iy == Round(y1 * Abs(dx) + k * (y2 - y1), Abs(dx))
                IN  BodyClear(g, cfg, ix, iy)

\* _corridor_ok
CorridorOk(g, cfg, x1, y1, x2, y2) ==
    LET dx == x2 - x1
    IN  IF dx = 0
        THEN \A cy \in Min2(y1, y2) .. Max2(y1, y2) : BodyClear(g, cfg, x1, cy)
        ELSE \A k \in 0 .. Abs(dx) :
                LET step == IF dx > 0 THEN 1 ELSE -1
                    ix == x1 + step * k
                    \* iy = round(y1 + ((ix - x1) / dx) * (y2 - y1))
                    iy == Round(y1 * Abs(dx) + k * (y2 - y1), Abs(dx))
                IN  BodyClear(g, cfg, ix, iy)

\* the neighbours of pos with the corridor left unchecked
ReachableIgnoringCorridor(g, valid, cfg, pos) ==
    {q \in valid :
        /\ q # pos
        /\ Abs(q[1] - pos[1]) <= cfg.max_jump_distance
        /\ q[2] - pos[2] >= -cfg.max_jump_height
        /\ q[2] - pos[2] <= cfg.max_safe_drop}

\* _reachable_from: the neighbours of pos; NbrRank is their order in the
\* returned list (dx ascending, then dy ascending)
ReachableFrom(g, valid, cfg, pos) ==
    {q \in valid :
        /\ q # pos
        /\ Abs(q[1] - pos[1]) <= cfg.max_jump_distance
        /\ q[2] - pos[2] >= -cfg.max_jump_height
        /\ q[2] - pos[2] <= cfg.max_safe_drop
        /\ CorridorOk(g, cfg, pos[1], pos[2], q[1], q[2])}

NbrRank(cfg, pos, q) ==
    (q[1] - pos[1] + cfg.max_jump_distance)
        * (cfg.max_jump_height + cfg.max_safe_drop + 1)
    + (q[2] - pos[2] + cfg.max_jump_height)

\* The members of S as a sequence in increasing key order (keys distinct)
SortBy(S, key) ==
    [i \in 1 .. Cardinality(S) |->
        CHOOSE q \in S : Cardinality({r \in S : key[r] < key[q]}) = i - 1]

SeqRange(s) == {s[i] : i \in 1 .. Len(s)}

(* _bfs: breadth-first search with a FIFO queue.  One call of BfsLayer     *)
(* dequeues a whole layer: queue is the layer in queue order, parent the   *)
(* parent map so far.  A position's parent is the first dequeued node that *)
(* lists it, and it is enqueued in the order it is discovered.  The search *)
(* stops once the goal has its parent: later dequeues never change it.     *)
RECURSIVE BfsLayer(_, _, _, _, _, _)
BfsLayer(g, valid, cfg, goal, queue, parent) ==
    IF goal \in DOMAIN parent THEN parent
    ELSE IF Len(queue) = 0 THEN parent
    ELSE
        LET nbrs == [i \in 1 .. Len(queue) |->
                        ReachableFrom(g, valid, cfg, queue[i])] @@ <<>>
            fresh == (UNION {nbrs[i] : i \in 1 .. Len(queue)}) \ DOMAIN parent
            owner == [q \in fresh |->
                        CHOOSE i \in 1 .. Len(queue) :
                            q \in nbrs[i] /\ \A j \in 1 .. (i - 1) : q \notin nbrs[j]]
                     @@ <<>>
            key == [q \in fresh |->
                        owner[q] * 10000 + NbrRank(cfg, queue[owner[q]], q)]
                   @@ <<>>
            next == SortBy(fresh, key) @@ <<>>
            newParent == [q \in fresh |-> queue[owner[q]]] @@ parent
        IN  BfsLayer(g, valid, cfg, goal, next, newParent)

\* _reconstruct: follow parents from goal back to start
RECURSIVE Reconstruct(_, _, _)
Reconstruct(parent, node, acc) ==
    IF node = NoPos THEN acc
    ELSE Reconstruct(parent, parent[node], <<node>> \o acc)

\* _bfs: the path start .. goal, or <<>> for None
PathTo(parent, goal) ==
    IF goal \in DOMAIN parent THEN Reconstruct(parent, goal, <<>>) ELSE <<>>

Bfs(g, valid, cfg, start, goal) ==
    PathTo(BfsLayer(g, valid, cfg, goal, <<start>>, (start :> NoPos)), goal)

\* _count_jumps
CountJumps(path) ==
    Cardinality({i \in 1 .. (Len(path) - 1) :
        path[i + 1][2] # path[i][2] \/ Abs(path[i + 1][1] - path[i][1]) > 1})

\* _min_landing_width: the narrowest run of valid cells around a path node
RunWidth(valid, p) ==
    LET lo == SetMin({x \in 0 .. p[1] :
                        \A c \in x .. p[1] : c = p[1] \/ <<c, p[2]>> \in valid})
        hi == SetMax({x \in p[1] .. (W - 1) :
                        \A c \in p[1] .. x : c = p[1] \/ <<c, p[2]>> \in valid})
    IN  hi - lo + 1

MinLandingWidth(valid, path) ==
    SetMin({W} \cup {RunWidth(valid, path[i]) : i \in 1 .. Len(path)})

\* _diagnose: the positions reachable from start, then the messages
RECURSIVE ReachSet(_, _, _, _, _)
ReachSet(g, valid, cfg, frontier, visited) ==
    IF frontier = {} THEN visited
    ELSE LET found == (UNION {ReachableFrom(g, valid, cfg, p) : p \in frontier})
                        \ visited
         IN  ReachSet(g, valid, cfg, found, visited \cup found)

\* One diagnostic string of a report: its text and the number it quotes
Reason(text, n) == [text |-> text, n |-> n]

Diagnose(g, valid, cfg, start, goal) ==
    LET visited == ReachSet(g, valid, cfg, {start}, {start})
        h_gap == Abs(goal[1] - start[1])
        v_up == start[2] - goal[2]
        v_dn == goal[2] - start[2]
    IN  << Reason("GOAL unreachable from START", 0),
           Reason("valid position(s) reachable from START", Cardinality(visited)) >>
        \o (IF h_gap > cfg.max_jump_distance
            THEN << Reason("Horizontal gap > max_jump_distance", h_gap) >> ELSE <<>>)
        \o (IF v_up > cfg.max_jump_height
            THEN << Reason("Height gain > max_jump_height", v_up) >> ELSE <<>>)
        \o (IF v_dn > cfg.max_safe_drop
            THEN << Reason("Drop > max_safe_drop", v_dn) >> ELSE <<>>)

Report(ok, plen, jumps, width, why) ==
    [reachable |-> ok, path_length |-> plen, jump_count |-> jumps,
     min_landing_width |-> width, reasons |-> why]

\* the report of validate once the search has ended: path is <<>> when the
\* goal was not reached, and why is then the diagnosis
PathReport(valid, path, why) ==
    IF path = <<>> THEN Report(FALSE, 0, 0, 0, why)
    ELSE Report(TRUE, Len(path), CountJumps(path),
                MinLandingWidth(valid, path), <<>>)

\* validate(grid) with start and goal read from the grid's markers
Validate(g, cfg) ==
    LET start == FindFlag(g, START)
        goal == FindFlag(g, GOAL)
        missing == (IF start = NoPos
                    THEN << Reason("No START marker found in grid", 0) >> ELSE <<>>)
                   \o (IF goal = NoPos
                       THEN << Reason("No GOAL marker found in grid", 0) >> ELSE <<>>)
    IN  IF missing # <<>> THEN Report(FALSE, 0, 0, 0, missing)
        ELSE
        LET valid == ValidSet(g, cfg)
            invalid == (IF start \notin valid
                        THEN << Reason("START is not a valid standing position", 0) >>
                        ELSE <<>>)
                       \o (IF goal \notin valid
                           THEN << Reason("GOAL is not a valid standing position", 0) >>
                           ELSE <<>>)
        IN  IF invalid # <<>> THEN Report(FALSE, 0, 0, 0, invalid)
            ELSE
            PathReport(valid, Bfs(g, valid, cfg, start, goal),
                       Diagnose(g, valid, cfg, start, goal))

\* an optional position argument left at None
NoArg == <<>>

\* valid[sy][sx] on a list of lists: indices -32 .. -1 count from the end,
\* anything else outside 0 .. 31 raises IndexError
ListIndexOk(pos) == -W <= pos[1] /\ pos[1] < W /\ -H <= pos[2] /\ pos[2] < H
ListCell(pos) == <<pos[1] % W, pos[2] % H>>

\* what a call of validate ends with: a report, or an error; path is the
\* list _bfs returned, <<>> for None
Outcome(error, report, path) == [error |-> error, report |-> report, path |-> path]

Searched(valid, path, why) == Outcome("none", PathReport(valid, path, why), path)

\* the diagnosis left out
NoDiagnosis(g, valid, cfg, start, goal) == <<>>
\* "reasons = self._diagnose(grid, valid, start, goal)"
Diagnosis(g, valid, cfg, start, goal) == Diagnose(g, valid, cfg, start, goal)

\* validate from "stand = ..." on, with start and goal resolved
ValidateFrom(g, cfg, valid, start, goal) ==
    IF ~ListIndexOk(start) \/ ~ListIndexOk(goal)
    THEN Outcome("IndexError", Report(FALSE, 0, 0, 0, <<>>), <<>>)
    ELSE
    LET invalid == (IF ListCell(start) \notin valid
                    THEN << Reason("START is not a valid standing position", 0) >>
                    ELSE <<>>)
                   \o (IF ListCell(goal) \notin valid
                       THEN << Reason("GOAL is not a valid standing position", 0) >>
                       ELSE <<>>)
    IN  IF invalid # <<>> THEN Outcome("none", Report(FALSE, 0, 0, 0, invalid), <<>>)
        ELSE Searched(valid, Bfs(g, valid, cfg, start, goal),
                      Diagnosis(g, valid, cfg, start, goal))

\* validate(grid, start, goal): an argument that is not None overrides the
\* grid's marker
ValidateWith(g, cfg, start_arg, goal_arg) ==
    LET found_start == IF start_arg = NoArg THEN FindFlag(g, START) ELSE NoPos
        found_goal == IF goal_arg = NoArg THEN FindFlag(g, GOAL) ELSE NoPos
        no_start == start_arg = NoArg /\ found_start = NoPos
        no_goal == goal_arg = NoArg /\ found_goal = NoPos
        missing == (IF no_start
                    THEN << Reason("No START marker found in grid", 0) >> ELSE <<>>)
                   \o (IF no_goal
                       THEN << Reason("No GOAL marker found in grid", 0) >> ELSE <<>>)
    IN  IF missing # <<>> THEN Outcome("none", Report(FALSE, 0, 0, 0, missing), <<>>)
        ELSE ValidateFrom(g, cfg, ValidSet(g, cfg),
                          IF start_arg = NoArg THEN found_start ELSE start_arg,
                          IF goal_arg = NoArg THEN found_goal ELSE goal_arg)

(***************************************************************************)
(* semantic_to_tilemap.py                                                  *)
(***************************************************************************)
NEIGHBOR_N == 1
NEIGHBOR_E == 2
NEIGHBOR_S == 4
NEIGHBOR_W == 8

\* TileIds; solid_variants is a dict from neighbour masks to tile IDs
TileIds(solid_base, solid_variants, oneway, hazard, ladder, start_marker, goal_marker, empty) ==
    [solid_base |-> solid_base, solid_variants |-> solid_variants,
     oneway |-> oneway, hazard |-> hazard, ladder |-> ladder,
     start_marker |-> start_marker, goal_marker |-> goal_marker,
     empty |-> empty]

\* is_solid: positions outside the grid count as solid
IsSolid(g, nx, ny) ==
    IF nx < 0 \/ nx >= W \/ ny < 0 \/ ny >= H THEN TRUE
    ELSE And(Get(g, nx, ny), SOLID) # 0

\* _neighbor_mask
NeighborMask(g, x, y) ==
    (IF IsSolid(g, x, y - 1) THEN NEIGHBOR_N ELSE 0)
    + (IF IsSolid(g, x + 1, y) THEN NEIGHBOR_E ELSE 0)
    + (IF IsSolid(g, x, y + 1) THEN NEIGHBOR_S ELSE 0)
    + (IF IsSolid(g, x - 1, y) THEN NEIGHBOR_W ELSE 0)

\* _solid_tile
SolidTile(t, g, x, y) ==
    IF DOMAIN t.solid_variants = {} THEN t.solid_base
    ELSE IF NeighborMask(g, x, y) \in DOMAIN t.solid_variants
         THEN t.solid_variants[NeighborMask(g, x, y)]
         ELSE t.solid_base

\* the flags tested with ONEWAY ahead of HAZARD
ResolveOnewayFirst(t, g, x, y) ==
    LET flags == Get(g, x, y)
    IN  IF And(flags, SOLID) # 0 THEN SolidTile(t, g, x, y)
        ELSE IF And(flags, ONEWAY) # 0 THEN t.oneway
        ELSE IF And(flags, HAZARD) # 0 THEN t.hazard
        ELSE IF And(flags, LADDER) # 0 THEN t.ladder
        ELSE IF And(flags, GOAL) # 0 /\ t.goal_marker # 0 THEN t.goal_marker
        ELSE IF And(flags, START) # 0 /\ t.start_marker # 0 THEN t.start_marker
        ELSE t.empty

\* _resolve
Resolve(t, g, x, y) ==
    LET flags == Get(g, x, y)
    IN  IF And(flags, SOLID) # 0 THEN SolidTile(t, g, x, y)
        ELSE IF And(flags, HAZARD) # 0 THEN t.hazard
        ELSE IF And(flags, ONEWAY) # 0 THEN t.oneway
        ELSE IF And(flags, LADDER) # 0 THEN t.ladder
        ELSE IF And(flags, GOAL) # 0 /\ t.goal_marker # 0 THEN t.goal_marker
        ELSE IF And(flags, START) # 0 /\ t.start_marker # 0 THEN t.start_marker
        ELSE t.empty

\* convert: result[y][x] for every cell, kept row-major like the grid
Convert(t, g) == [i \in CellIdx |-> Resolve(t, g, i % W, i \div W)]

(***************************************************************************)
(* random.Random: a seedable deterministic generator.  The source uses     *)
(* CPython's generator; the model uses a counter-based one: the state is   *)
(* the seed and the number of draws made, and draw number ctr of seed key  *)
(* is Mix(key, ctr).  randint(a, b) maps a draw into a .. b.               *)
(***************************************************************************)
Mix(key, ctr) ==
    LET h == (key * 7919 + ctr * 1409 + 13) % 32749
    IN  (h * h + ctr * 31 + key) % 32749

\* random.Random(seed): a fresh generator
Random(seed) == [key |-> seed, ctr |-> 0]
\* rng.randint(a, b) as draw number (rng.ctr + k) of the generator
RandInt(rng, k, a, b) == a + (Mix(rng.key, rng.ctr + k) % (b - a + 1))
\* the generator after n draws
Drawn(rng, n) == [rng EXCEPT !.ctr = @ + n]

(***************************************************************************)
(* level_generator.py                                                      *)
(***************************************************************************)
PLAYER_HEIGHT == 2
MAX_RETRIES == 40
MAX_STEP_TRIES == 50
GOAL_X_MIN == 26

Foothold(x, y, width) == [x |-> x, y |-> y, width |-> width]
SurfaceY(fh) == fh.y + 1
Right(fh) == fh.x + fh.width - 1
XCols(fh) == fh.x .. (fh.x + fh.width - 1)
ClearanceRows(fh) == (fh.y - PLAYER_HEIGHT + 1) .. fh.y

MovementSpec(jh, jd, drop) ==
    [max_jump_height |-> jh, max_jump_distance |-> jd, max_safe_drop |-> drop]

\* verticality and difficulty are numerators over 8
GeneratorKnobs(n, minw, maxw, vert8, diff8) ==
    [target_foothold_count |-> n, min_foothold_width |-> minw,
     max_foothold_width |-> maxw, verticality |-> vert8, difficulty |-> diff8]

\* _min_dx_for_progress
MinDxForProgress(current_x, steps_remaining, target_x, max_dx) ==
    LET needed == target_x - current_x
    IN  IF needed <= 0 \/ steps_remaining <= 0 THEN 1
        ELSE Max2(1, Min2(max_dx,
                          (needed + steps_remaining - 1) \div steps_remaining))

\* the check of the new surface against the clearance zones placed so far,
\* without the check of their surfaces against the new clearance zone
ClearanceOkOneWay(existing, new_fh) ==
    \A i \in 1 .. Len(existing) :
        LET fh == existing[i]
        IN  \/ XCols(new_fh) \cap XCols(fh) = {}
            \/ ~(fh.y - PLAYER_HEIGHT + 1 <= SurfaceY(new_fh)
                  /\ SurfaceY(new_fh) <= fh.y)

\* the check against the previous foothold alone
ClearanceOkLastOnly(existing, new_fh) ==
    \A i \in {Len(existing)} \ {0} :
        LET fh == existing[i]
        IN  \/ XCols(new_fh) \cap XCols(fh) = {}
            \/ /\ ~(fh.y - PLAYER_HEIGHT + 1 <= SurfaceY(new_fh)
                    /\ SurfaceY(new_fh) <= fh.y)
               /\ ~(new_fh.y - PLAYER_HEIGHT + 1 <= SurfaceY(fh)
                    /\ SurfaceY(fh) <= new_fh.y)

\* _clearance_ok
ClearanceOk(existing, new_fh) ==
    \A i \in 1 .. Len(existing) :
        LET fh == existing[i]
        IN  \/ XCols(new_fh) \cap XCols(fh) = {}
            \/ /\ ~(fh.y - PLAYER_HEIGHT + 1 <= SurfaceY(new_fh)
                    /\ SurfaceY(new_fh) <= fh.y)
               /\ ~(new_fh.y - PLAYER_HEIGHT + 1 <= SurfaceY(fh)
                    /\ SurfaceY(fh) <= new_fh.y)

\* the step parameters _generate_footholds derives from knobs and spec
DiffMin(knobs, spec) == Round(spec.max_jump_distance * knobs.difficulty, 32)
\* the rise of a full jump, whatever the verticality
MaxUpFull(knobs, spec) == spec.max_jump_height
MaxUp(knobs, spec) == Max2(0, Round(spec.max_jump_height * knobs.verticality, 8))
MaxDown(knobs, spec) == Max2(0, Round(spec.max_safe_drop * knobs.verticality, 8))
EffMaxW(knobs) ==
    Max2(knobs.min_foothold_width,
         knobs.max_foothold_width
            - Round(knobs.difficulty
                      * (knobs.max_foothold_width - knobs.min_foothold_width), 8))
\* draws one try makes: dx, dy (only when the dy range is not empty), w
DrawsPerTry(knobs, spec) ==
    IF MaxUp(knobs, spec) + MaxDown(knobs, spec) > 0 THEN 3 ELSE 2

\* a first foothold as wide as drawn
FirstFootholdAsDrawn(rng, knobs) ==
    Foothold(RandInt(rng, 1, 2, 5),
             RandInt(rng, 0, Max2(PLAYER_HEIGHT, H \div 2 - 5), Min2(H - 3, H \div 2 + 5)),
             RandInt(rng, 2, knobs.min_foothold_width, knobs.max_foothold_width))

\* _generate_footholds, first foothold
FirstFoothold(rng, knobs) ==
    LET mid_y == H \div 2
        y_lo == Max2(PLAYER_HEIGHT, mid_y - 5)
        y_hi == Min2(H - 3, mid_y + 5)
        first_y == RandInt(rng, 0, y_lo, y_hi)
        first_x == RandInt(rng, 1, 2, 5)
        drawn_w == RandInt(rng, 2, knobs.min_foothold_width,
                           knobs.max_foothold_width)
        first_w == Max2(knobs.min_foothold_width,
                        Min2(drawn_w, W - 2 - first_x))
    IN  Foothold(first_x, first_y, first_w)

\* the candidate that try number t (from 0) of step i samples
StepCandidate(rng, t, prev, i, knobs, spec) ==
    LET N == knobs.target_foothold_count
        prog_min == MinDxForProgress(prev.x, N - i, GOAL_X_MIN,
                                     spec.max_jump_distance)
        min_dx == Min2(Max2(Max2(prog_min, DiffMin(knobs, spec)), 1),
                       spec.max_jump_distance)
        per == DrawsPerTry(knobs, spec)
        dx == RandInt(rng, per * t, min_dx, spec.max_jump_distance)
        dy == IF per = 3
              THEN RandInt(rng, per * t + 1, -MaxUp(knobs, spec),
                           MaxDown(knobs, spec))
              ELSE 0
        w == RandInt(rng, per * t + per - 1, knobs.min_foothold_width,
                     EffMaxW(knobs))
    IN  Foothold(prev.x + dx, prev.y + dy, w)

\* a loop that stops one step early
ShortRange(N) == 1 .. (N - 2)
\* range(1, N): the steps after the first foothold
StepRange(N) == 1 .. (N - 1)

\* a check that never rejects the last foothold
NeverShort(is_last, new_x) == FALSE
\* "is_last and new_x < GOAL_X_MIN": the last foothold stops short of the
\* right side
ShortOfGoal(is_last, new_x) == is_last /\ new_x < GOAL_X_MIN

\* the checks of one try: grid bounds, the last foothold's reach, clearance
StepAccepts(footholds, cand, i, knobs) ==
    /\ ~(cand.x < 1 \/ cand.x + cand.width - 1 > W - 2)
    /\ ~(cand.y < PLAYER_HEIGHT)
    /\ ~(cand.y + 1 > H - 2)
    /\ ~ShortOfGoal(i = knobs.target_foothold_count - 1, cand.x)
    /\ ClearanceOk(footholds, cand)

(* _generate_footholds, steps i .. N-1.  In each step the tries run in     *)
(* order and the first accepted candidate is appended; a step with no      *)
(* accepted try among MAX_STEP_TRIES ends the attempt with None.           *)
RECURSIVE PlaceFrom(_, _, _, _, _)
PlaceFrom(footholds, rng, i, knobs, spec) ==
    IF i \notin StepRange(knobs.target_foothold_count)
    THEN [ok |-> TRUE, footholds |-> footholds, rng |-> rng]
    ELSE
        LET prev == footholds[Len(footholds)]
            per == DrawsPerTry(knobs, spec)
            accepted == {t \in 0 .. (MAX_STEP_TRIES - 1) :
                            StepAccepts(footholds,
                                StepCandidate(rng, t, prev, i, knobs, spec),
                                i, knobs)}
        IN  IF accepted = {}
            THEN [ok |-> FALSE, footholds |-> footholds,
                  rng |-> Drawn(rng, per * MAX_STEP_TRIES)]
            ELSE
                LET t == SetMin(accepted)
                    cand == StepCandidate(rng, t, prev, i, knobs, spec)
                IN  PlaceFrom(Append(footholds, cand),
                              Drawn(rng, per * (t + 1)), i + 1, knobs, spec)

GenerateFootholds(rng, knobs, spec) ==
    PlaceFrom(<<FirstFoothold(rng, knobs)>>, Drawn(rng, 3), 1, knobs, spec)

(***************************************************************************)
(* footholds_to_grid                                                       *)
(***************************************************************************)
\* surface_cells: the cells phase 2 adds SOLID to
SurfaceCells(footholds) ==
    UNION {{<<x, SurfaceY(footholds[k])>> :
                x \in {c \in XCols(footholds[k]) :
                        InBounds(c, SurfaceY(footholds[k]))}} :
           k \in 1 .. Len(footholds)}

\* the cells phase 3 removes SOLID from: every foothold's clearance zone,
\* except the recorded surface cells
ClearedCells(footholds, surface_cells) ==
    UNION {{c \in {<<x, row>> : x \in XCols(footholds[k]),
                                row \in ClearanceRows(footholds[k])} :
                0 <= c[2] /\ c[2] < H /\ c \notin surface_cells} :
           k \in 1 .. Len(footholds)}

(* The two paint loops add SOLID to one set of cells and then remove it    *)
(* from another; both are idempotent per cell, so the grid after the loops *)
(* is given cell by cell.                                                  *)
FootholdsToGrid(footholds) ==
    LET floor == ApplyRect(EmptyGrid, 0, H - 1, W, 1, SOLID, "overwrite") @@ <<>>
        surface_cells == SurfaceCells(footholds)
        cleared_cells == ClearedCells(footholds, surface_cells)
        painted == [i \in CellIdx |->
                      IF <<i % W, i \div W>> \in surface_cells
                      THEN ToByte(Or(floor[i], SOLID)) ELSE floor[i]] @@ <<>>
        cleared == [i \in CellIdx |->
                      IF <<i % W, i \div W>> \in cleared_cells
                      THEN ToByte(AndNot(painted[i], SOLID)) ELSE painted[i]] @@ <<>>
        first == footholds[1]
        last == footholds[Len(footholds)]
        withStart == Set(cleared, first.x + first.width \div 2, first.y, START)
    IN  Set(withStart, last.x + last.width \div 2, last.y, GOAL)

(***************************************************************************)
(* refine_region.py                                                        *)
(***************************************************************************)
MAX_INNER_RETRIES == 30

RefineRect(x, y, w, h) == [x |-> x, y |-> y, w |-> w, h |-> h]
RectRight(rect) == rect.x + rect.w - 1
RectBottom(rect) == rect.y + rect.h - 1
Contains(rect, cx, cy) ==
    /\ rect.x <= cx /\ cx <= RectRight(rect)
    /\ rect.y <= cy /\ cy <= RectBottom(rect)

\* the deltas are numerators over 8
RefineRequest(dd8, vd8, secret, smooth) ==
    [difficulty_delta |-> dd8, verticality_delta |-> vd8,
     add_secret |-> secret, smooth_silhouette |-> smooth]

RefineReport(ok, entry, exit, inner, reach, why) ==
    [success |-> ok, seam_entry |-> entry, seam_exit |-> exit,
     inner_footholds |-> inner, reachability |-> reach, reasons |-> why]

\* _find_flag_pos
FindFlagPos(g, flag) == FindFlag(g, flag)

\* _linear_corridor_ok
LinearCorridorOk(g, x1, y1, x2, y2, player_height) ==
    LET dx == x2 - x1
        dy == y2 - y1
        steps == Max2(Abs(dx), 1)
    IN  \A step \in 1 .. steps :
            LET cx == x1 + Round(dx * step, steps)
                cy == y1 + Round(dy * step, steps)
            IN  \A body_row \in (cy - player_height + 1) .. cy :
                    \/ ~InBounds(cx, body_row)
                    \/ And(Get(g, cx, body_row), SOLID) = 0

\* the positions one move away from pos in _bfs_reachable
LinearNbrs(g, valid, spec, pos) ==
    {q \in valid :
        /\ q # pos
        /\ Abs(q[1] - pos[1]) <= spec.max_jump_distance
        /\ q[2] - pos[2] >= -spec.max_jump_height
        /\ q[2] - pos[2] <= spec.max_safe_drop
        /\ LinearCorridorOk(g, pos[1], pos[2], q[1], q[2], PLAYER_HEIGHT)}

\* _bfs_reachable: every position reachable from start; the visited set
\* does not depend on the queue order
RECURSIVE ReachClosure(_, _, _, _, _)
ReachClosure(g, valid, spec, frontier, visited) ==
    IF frontier = {} THEN visited
    ELSE LET found == (UNION {LinearNbrs(g, valid, spec, p) : p \in frontier})
                        \ visited
         IN  ReachClosure(g, valid, spec, found, visited \cup found)

BfsReachable(g, valid, start, spec) ==
    ReachClosure(g, valid, spec, {start}, {start})

\* min(cands, key = |y - mid_y|): the first of the nearest, in row order
Nearest(cands, mid_y) ==
    LET best == SetMin({Abs(c[2] - mid_y) : c \in cands})
        row == SetMin({c[2] : c \in {d \in cands : Abs(d[2] - mid_y) = best}})
    IN  CHOOSE c \in cands : c[2] = row

(* _find_seams: the pairs (seam_entry, seam_exit) the call can return,     *)
(* NoPos for None.  The fallback sorts a set by x only, so among cells of  *)
(* equal x the first and last of the list depend on the set's iteration    *)
(* order: every such cell is a possible outcome.                           *)
FindSeams(g, rect, cfg, spec) ==
    LET valid == ValidSet(g, cfg)
        start == FindFlagPos(g, START)
    IN  IF start = NoPos \/ start \notin valid THEN {<<NoPos, NoPos>>}
        ELSE
        LET reachable == BfsReachable(g, valid, start, spec)
            mid_y == (rect.y + RectBottom(rect)) \div 2
            rows == rect.y .. RectBottom(rect)
            cols == rect.x .. RectRight(rect)
            left_cands == {c \in {<<rect.x, gy>> : gy \in rows} : c \in reachable}
            right_cands ==
                {c \in {<<RectRight(rect), gy>> : gy \in rows} : c \in reachable}
            top_bot == {c \in {<<gx, gy>> : gx \in cols,
                                           gy \in {rect.y, RectBottom(rect)}} :
                            c \in reachable}
            all_cands == left_cands \cup right_cands \cup top_bot
            entries ==
                IF left_cands # {} THEN {Nearest(left_cands, mid_y)}
                ELSE IF all_cands = {} THEN {NoPos}
                ELSE {c \in all_cands : c[1] = SetMin({d[1] : d \in all_cands})}
            exits ==
                IF right_cands # {} THEN {Nearest(right_cands, mid_y)}
                ELSE IF all_cands = {} THEN {NoPos}
                ELSE {c \in all_cands : c[1] = SetMax({d[1] : d \in all_cands})}
        IN  {p \in entries \X exits :
                \* first and last of one list of two or more cells differ
                (left_cands = {} /\ right_cands = {} /\ Cardinality(all_cands) > 1)
                    => p[1] # p[2]}

\* _apply_deltas: verticality and difficulty clamped to 0 .. 1
ApplyDeltas(base, req) ==
    [base EXCEPT
        !.verticality = Max2(0, Min2(8, base.verticality + req.verticality_delta)),
        !.difficulty = Max2(0, Min2(8, base.difficulty + req.difficulty_delta))]

\* the candidate that try number t (from 0) of an intermediate step samples
InnerCandidate(rng, t, prev, min_dx, max_dx, ik, spec) ==
    LET per == DrawsPerTry(ik, spec)
        dx == RandInt(rng, per * t, min_dx, max_dx)
        dy == IF per = 3
              THEN RandInt(rng, per * t + 1, -MaxUp(ik, spec), MaxDown(ik, spec))
              ELSE 0
        w == RandInt(rng, per * t + per - 1, ik.min_foothold_width, EffMaxW(ik))
    IN  Foothold(prev.x + dx, prev.y + dy, w)

InnerAccepts(footholds, cand, rect) ==
    /\ ~(cand.x < rect.x \/ cand.x + cand.width - 1 > RectRight(rect))
    /\ ~(cand.y < rect.y + PLAYER_HEIGHT)
    /\ ~(cand.y + 1 > RectBottom(rect))
    /\ ClearanceOk(footholds, cand)

\* _generate_inner_footholds, intermediate steps step .. n_inter-1
RECURSIVE InnerFrom(_, _, _, _, _, _, _, _)
InnerFrom(footholds, rng, step, n_inter, ik, spec, rect, target_x) ==
    IF step >= n_inter
    THEN [ok |-> TRUE, footholds |-> footholds, rng |-> rng]
    ELSE
        LET prev == footholds[Len(footholds)]
            per == DrawsPerTry(ik, spec)
            prog_min == MinDxForProgress(prev.x, n_inter - step + 1, target_x,
                                         spec.max_jump_distance)
            min_dx == Min2(Max2(Max2(prog_min, DiffMin(ik, spec)), 1),
                           spec.max_jump_distance)
            max_dx == Min2(spec.max_jump_distance, target_x - prev.x - 1)
            accepted == {t \in 0 .. (MAX_STEP_TRIES - 1) :
                            InnerAccepts(footholds,
                                InnerCandidate(rng, t, prev, min_dx, max_dx, ik, spec),
                                rect)}
        IN  IF max_dx < min_dx
            THEN [ok |-> FALSE, footholds |-> footholds, rng |-> rng]
            ELSE IF accepted = {}
            THEN [ok |-> FALSE, footholds |-> footholds,
                  rng |-> Drawn(rng, per * MAX_STEP_TRIES)]
            ELSE
                LET t == SetMin(accepted)
                    cand == InnerCandidate(rng, t, prev, min_dx, max_dx, ik, spec)
                IN  InnerFrom(Append(footholds, cand), Drawn(rng, per * (t + 1)),
                              step + 1, n_inter, ik, spec, rect, target_x)

\* _generate_inner_footholds, the exit foothold and the final checks
ExitFoothold(footholds, rng, ik, spec, rect, exit_point) ==
    LET last == footholds[Len(footholds)]
        drawn == RandInt(rng, 0, ik.min_foothold_width, ik.max_foothold_width)
        x_w == Max2(1, Min2(Max2(ik.min_foothold_width, drawn),
                            exit_point[1] - rect.x + 1))
        exit_x == exit_point[1] - x_w + 1
        dy_to_exit == exit_point[2] - last.y
        min_jump_dx == Max2(0, exit_x - (last.x + last.width - 1))
        exit_fh == Foothold(exit_x, exit_point[2], x_w)
        fits == /\ ~(min_jump_dx > spec.max_jump_distance)
                /\ ~(dy_to_exit > spec.max_safe_drop)
                /\ ~(dy_to_exit < -spec.max_jump_height)
                /\ ClearanceOk(footholds, exit_fh)
    IN  [ok |-> fits,
         footholds |-> IF fits THEN Append(footholds, exit_fh) ELSE footholds,
         rng |-> Drawn(rng, 1)]

GenerateInnerFootholds(rng, ik, spec, rect, entry, exit_point) ==
    LET dx_total == exit_point[1] - entry[1]
        avg_hop == Max2(1, (spec.max_jump_distance + 1) \div 2)
        n_inter == Max2(0, Min2(6, (dx_total \div avg_hop) - 1))
        drawn == RandInt(rng, 0, ik.min_foothold_width, ik.max_foothold_width)
        e_w == Min2(Max2(ik.min_foothold_width, drawn),
                    RectRight(rect) - entry[1] + 1)
        first == Foothold(entry[1], entry[2], e_w)
        mid == InnerFrom(<<first>>, Drawn(rng, 1), 0, n_inter, ik, spec, rect,
                         exit_point[1])
    IN  IF dx_total <= 0 THEN [ok |-> FALSE, footholds |-> <<>>, rng |-> rng]
        ELSE IF ~mid.ok THEN mid
        ELSE ExitFoothold(mid.footholds, mid.rng, ik, spec, rect, exit_point)

\* a clear that takes SOLID out of rect and leaves the other flags
ClearSolidOnly(g, rect) ==
    [i \in DOMAIN g |-> IF Contains(rect, i % W, i \div W) THEN AndNot(g[i], SOLID)
                        ELSE g[i]] @@ <<>>

\* _clear_rect: zero every cell inside rect
ClearRect(g, rect) ==
    [i \in DOMAIN g |-> IF Contains(rect, i % W, i \div W) THEN ToByte(EMPTY)
                        ELSE g[i]] @@ <<>>

\* a paint clipped to the grid only
InGrid(rect, fx, fy) == InBounds(fx, fy)
\* "rect.x <= fx <= rect.right and rect.y <= fy <= rect.bottom": the clip
\* of every paint
InRect(rect, fx, fy) ==
    /\ rect.x <= fx /\ fx <= RectRight(rect)
    /\ rect.y <= fy /\ fy <= RectBottom(rect)

\* "for fh in footholds" of paint phase 1
AllSurfaces(footholds) == 1 .. Len(footholds)

\* surface_cells of _paint_inner_footholds
InnerSurfaceCells(footholds, rect) ==
    UNION {{c \in {<<fx, SurfaceY(footholds[k])>> : fx \in XCols(footholds[k])} :
                InRect(rect, c[1], c[2])} :
           k \in AllSurfaces(footholds)}

\* the cells phase 2 of _paint_inner_footholds removes SOLID from
InnerClearedCells(footholds, rect, surface_cells) ==
    UNION {{c \in {<<fx, row>> : fx \in XCols(footholds[k]),
                                 row \in ClearanceRows(footholds[k])} :
                InRect(rect, c[1], c[2]) /\ c \notin surface_cells} :
           k \in 1 .. Len(footholds)}

\* add SOLID on the cells of add, then remove SOLID on the cells of remove
PaintCells(g, add, remove) ==
    LET painted == [i \in DOMAIN g |->
                      IF <<i % W, i \div W>> \in add
                      THEN ToByte(Or(g[i], SOLID)) ELSE g[i]] @@ <<>>
    IN  [i \in DOMAIN g |->
            IF <<i % W, i \div W>> \in remove
            THEN ToByte(AndNot(painted[i], SOLID)) ELSE painted[i]] @@ <<>>

\* _paint_inner_footholds
PaintInnerFootholds(g, footholds, rect) ==
    LET surface_cells == InnerSurfaceCells(footholds, rect)
    IN  PaintCells(g, surface_cells,
                   InnerClearedCells(footholds, rect, surface_cells))

(* _smooth_silhouette: a sweep over the columns of rect's top row, left to  *)
(* right, that edits the grid in place.  The grid during the sweep is g    *)
(* without SOLID in the columns removed so far, and each column is judged  *)
(* on the row as the columns before it left it.                            *)

\* a test that counts the neighbours outside rect as well
IsolatedInRow(g, removed, rect, fx) ==
    LET solid(c) == And(Get(g, c, rect.y), SOLID) # 0 /\ c \notin removed
    IN  solid(fx) /\ ~(fx > 0 /\ solid(fx - 1)) /\ ~(fx < W - 1 /\ solid(fx + 1))

\* "if not left_solid and not right_solid", for a column bearing SOLID
Isolated(g, removed, rect, fx) ==
    LET top_y == rect.y
        solid(c) == And(Get(g, c, top_y), SOLID) # 0 /\ c \notin removed
        left_solid == fx > rect.x /\ solid(fx - 1)
        right_solid == fx < RectRight(rect) /\ solid(fx + 1)
    IN  solid(fx) /\ ~left_solid /\ ~right_solid

\* the iterations of "for fx in range(rect.x, rect.right + 1)" from fx on:
\* the columns the loop has called removeFlags on when it ends
RECURSIVE SmoothFrom(_, _, _, _)
SmoothFrom(g, removed, rect, fx) ==
    IF fx > RectRight(rect) THEN removed
    ELSE SmoothFrom(g, IF Isolated(g, removed, rect, fx)
                       THEN removed \cup {fx} ELSE removed,
                    rect, fx + 1)

SmoothSilhouette(g, rect) ==
    LET removed == SmoothFrom(g, {}, rect, rect.x)
    IN  [i \in DOMAIN g |->
            IF i \div W = rect.y /\ i % W \in removed
            THEN ToByte(AndNot(g[i], SOLID)) ELSE g[i]] @@ <<>>

\* the platform that try number t (from 0) of _add_secret samples
SecretCandidate(rng, t, base_fh) ==
    LET sx == base_fh.x + RandInt(rng, 3 * t + 1, -1, 1)
        sy == base_fh.y - RandInt(rng, 3 * t + 2, 3, 5)
        sw == RandInt(rng, 3 * t + 3, 2, 3)
    IN  Foothold(sx, sy, sw)

SecretAccepts(footholds, secret, rect) ==
    /\ ~(secret.x < rect.x \/ secret.x + secret.width - 1 > RectRight(rect))
    /\ ~(secret.y < rect.y + PLAYER_HEIGHT \/ secret.y + 1 > RectBottom(rect))
    /\ ClearanceOk(footholds, secret)

\* _add_secret: the first accepted of 20 tries is painted
AddSecret(g, footholds, rect, rng) ==
    IF Len(footholds) = 0 THEN g
    ELSE
        LET base_fh == footholds[RandInt(rng, 0, 0, Len(footholds) - 1) + 1]
            accepted == {t \in 0 .. 19 :
                            SecretAccepts(footholds,
                                          SecretCandidate(rng, t, base_fh), rect)}
        IN  IF accepted = {} THEN g
            ELSE
                LET secret == SecretCandidate(rng, SetMin(accepted), base_fh)
                    surface == {c \in {<<fx, SurfaceY(secret)>> : fx \in XCols(secret)} :
                                    InRect(rect, c[1], c[2])}
                    headroom == {c \in {<<fx, row>> : fx \in XCols(secret),
                                                   row \in ClearanceRows(secret)} :
                                    InRect(rect, c[1], c[2])}
                IN  PaintCells(g, surface, headroom)

\* steps 4 and 5 of one attempt: the grid built from the inner footholds
RefinedGrid(g, rect, request, inner_fhs, rng, start_inside, goal_inside) ==
    LET painted == PaintInnerFootholds(ClearRect(Copy(g), rect), inner_fhs, rect)
        first == inner_fhs[1]
        last == inner_fhs[Len(inner_fhs)]
        withStart == IF start_inside
                     THEN Set(painted, first.x + first.width \div 2, first.y, START)
                     ELSE painted
        withGoal == IF goal_inside
                    THEN Set(withStart, last.x + last.width \div 2, last.y, GOAL)
                    ELSE withStart
        withSecret == IF request.add_secret
                      THEN AddSecret(withGoal, inner_fhs, rect, rng)
                      ELSE withGoal
    IN  IF request.smooth_silhouette THEN SmoothSilhouette(withSecret, rect)
        ELSE withSecret

(***************************************************************************)
(* SemanticGrid32 serialisation.  base64 text is modelled as the sequence  *)
(* of its characters' alphabet indices 0 .. 63, with PadChar for '='.      *)
(***************************************************************************)
PadChar == 64

\* base64.b64encode(raw): three bytes to four characters, the last group
\* padded with '='
B64Encode(raw) ==
    LET n == Len(raw)
        byte(k) == IF k <= n THEN raw[k] ELSE 0
    IN  [j \in 1 .. 4 * ((n + 2) \div 3) |->
            LET grp == (j - 1) \div 4
                pos == (j - 1) % 4
                have == Min2(3, n - 3 * grp)
                b0 == byte(3 * grp + 1)
                b1 == byte(3 * grp + 2)
                b2 == byte(3 * grp + 3)
            IN  IF pos = 0 THEN b0 \div 4
                ELSE IF pos = 1 THEN (b0 % 4) * 16 + (b1 \div 16)
                ELSE IF pos = 2
                THEN (IF have >= 2 THEN (b1 % 16) * 4 + (b2 \div 64) ELSE PadChar)
                ELSE (IF have = 3 THEN b2 % 64 ELSE PadChar)] @@ <<>>

(* base64.b64decode(text) for a text of data characters followed by '='    *)
(* characters: binascii.Error (a ValueError) when the data characters      *)
(* leave one character over, or leave two or three over without enough    *)
(* padding; otherwise the decoded bytes.                                   *)
B64Decode(text) ==
    LET n == Len(text)
        nd == Cardinality({j \in 1 .. n : text[j] # PadChar})
        pads == n - nd
        over == nd % 4
        ok == \/ over = 0
              \/ over = 2 /\ pads >= 2
              \/ over = 3 /\ pads >= 1
        nbytes == 3 * (nd \div 4) + (IF over = 0 THEN 0 ELSE over - 1)
        sextet(k) == IF k <= nd THEN text[k] ELSE 0
    IN  IF ~ok THEN [ok |-> FALSE, raw |-> <<>>]
        ELSE [ok |-> TRUE,
              raw |-> [i \in 1 .. nbytes |->
                        LET grp == (i - 1) \div 3
                            k == (i - 1) % 3
                            s0 == sextet(4 * grp + 1)
                            s1 == sextet(4 * grp + 2)
                            s2 == sextet(4 * grp + 3)
                            s3 == sextet(4 * grp + 4)
                        IN  IF k = 0 THEN s0 * 4 + (s1 \div 16)
                            ELSE IF k = 1 THEN (s1 % 16) * 16 + (s2 \div 4)
                            ELSE (s2 % 4) * 64 + s3] @@ <<>>]

\* bytes(self._cells): the cells in row-major order
RawBytes(g) == [k \in 1 .. NCells |-> g[k - 1]] @@ <<>>

\* a cell list read column by column
TransposedCells(raw) ==
    [i \in 0 .. (Len(raw) - 1) |-> raw[(i % W) * H + (i \div W) + 1]] @@ <<>>
\* g._cells = list(raw)
CellsOfRaw(raw) == [i \in 0 .. (Len(raw) - 1) |-> raw[i + 1]] @@ <<>>

Payload(w, h, text) == [width |-> w, height |-> h, cells |-> text]

\* toJSON
ToJSON(g) == Payload(W, H, B64Encode(RawBytes(g)))

\* a length check that lets every length through
LengthAny(raw) == TRUE
\* "len(raw) != cls.WIDTH * cls.HEIGHT" does not hold
LengthOk(raw) == Len(raw) = W * H

\* fromJSON: the grid, or the ValueError raised
FromJSON(data) ==
    IF data.width # W \/ data.height # H
    THEN [error |-> "ValueError", grid |-> <<>>]
    ELSE
        LET dec == B64Decode(data.cells)
        IN  IF ~dec.ok THEN [error |-> "ValueError", grid |-> <<>>]
            ELSE IF ~LengthOk(dec.raw) THEN [error |-> "ValueError", grid |-> <<>>]
            ELSE [error |-> "none", grid |-> CellsOfRaw(dec.raw)]

(***************************************************************************)
(* generate_level as a state machine: one call at a time, one action per   *)
(* iteration of the retry loop.                                            *)
(***************************************************************************)
VARIABLES
    pc,        \* "idle", "running", "returned" or "raised" (RuntimeError)
    seed, knobs, spec,   \* the arguments of the call in progress
    attempt,   \* the retry loop's counter
    rng,       \* the generator the last attempt drew from
    result,    \* the GenerationResult of the call, once returned
    calls,     \* number of calls made so far
    memo       \* the finished calls: arguments and outcome

genvars == <<pc, seed, knobs, spec, attempt, rng, result, calls, memo>>

\* the state of the refine_region call
VARIABLES
    rpc,       \* "idle", "looping", "succeeded" or "failed"
    rargs,     \* the arguments of the call: grid, rect, request, seed, ...
    rprep,     \* what steps 2 to 4 computed: seams, inner_knobs, ...
    rattempt,  \* the retry loop's counter
    rout       \* the returned pair: grid and report

refvars == <<rpc, rargs, rprep, rattempt, rout>>

\* the state of the SemanticGrid32 object
VARIABLES
    cells,     \* the grid's cell list
    ret        \* the last call: its name, its error, its payload, its grid

gridvars == <<cells, ret>>

\* two SemanticGrid32 objects and the lists their _cells fields refer to
VARIABLES
    heap,      \* the cell lists: list identity -> the list's content
    g_cells,   \* the list g._cells refers to
    h_cells,   \* the list h._cells refers to, 0 until h = g.copy()
    last       \* the last call: target, method, arguments, error, value

objvars == <<heap, g_cells, h_cells, last>>

\* one call of ReachabilityValidator.validate
VARIABLES
    vpc,       \* "idle", "called", "returned" or "raised"
    vargs,     \* the arguments: grid, start, goal
    vout       \* the outcome: error, report, and the path _bfs found

valvars == <<vpc, vargs, vout>>

\* the SemanticToTilemap mapper in use and its last conversion
VARIABLES
    tpc,        \* "new" after construction, "converted" after convert
    tile_ids,   \* the mapper's TileIds
    tgrid,      \* the grid last converted
    tiles       \* the tile-ID matrix convert returned

tilevars == <<tpc, tile_ids, tgrid, tiles>>

\* one call of _find_seams
VARIABLES
    spc,        \* "idle", "called" or "returned"
    sargs,      \* the arguments: grid, rect
    sout        \* the reachable set it computed and the seams it returned

seamvars == <<spc, sargs, sout>>

\* one query of the validator's movement graph on a grid and on the grid
\* with its HAZARD flags changed
VARIABLES
    epc,        \* "idle", "asked" or "answered"
    eargs,      \* the grid, the change of its HAZARD flags, the source position
    eout        \* per grid: corridor-clear targets, valid positions, neighbours

edgevars == <<epc, eargs, eout>>

\* the inner chain of one refinement: seam detection, then the first call of
\* _generate_inner_footholds
VARIABLES
    ipc,        \* "idle", "called" or "returned"
    iargs,      \* the arguments: grid, rect, seed, knobs
    iout        \* the seams found and the chain built from them, if any

chainvars == <<ipc, iargs, iout>>

\* one call of _smooth_silhouette
VARIABLES
    mpc,        \* "idle", "called" or "returned"
    margs,      \* the arguments: the SOLID columns of the row, and rect
    mout        \* the grid after the pass

smoothvars == <<mpc, margs, mout>>

vars == <<genvars, refvars, gridvars, objvars, valvars, tilevars, seamvars, edgevars, chainvars, smoothvars>>

\* bounds of the inputs
MaxSeed == 5
MaxCalls == 3

Seeds == 0 .. MaxSeed
SpecChoices == {MovementSpec(4, 5, 6), MovementSpec(4, 12, 6)}
KnobChoices ==
    { GeneratorKnobs(8, 2, 6, 4, 2), GeneratorKnobs(6, 2, 4, 2, 0),
      GeneratorKnobs(6, 2, 3, 0, 0), GeneratorKnobs(3, 2, 4, 4, 4),
      GeneratorKnobs(10, 2, 4, 8, 6), GeneratorKnobs(1, 2, 4, 4, 2),
      GeneratorKnobs(0, 2, 4, 4, 2), GeneratorKnobs(6, 2, 40, 4, 8),
      GeneratorKnobs(2, 27, 30, 4, 2) }

NoResult ==
    [grid |-> <<>>, footholds |-> <<>>, report |-> Report(FALSE, 0, 0, 0, <<>>),
     seed_used |-> -1, attempts |-> 0]
GenerationResult(grid, footholds, report, seed_used, attempts) ==
    [grid |-> grid, footholds |-> footholds, report |-> report,
     seed_used |-> seed_used, attempts |-> attempts]

\* cfg = PlayerConfig(height=PLAYER_HEIGHT, ...spec)
PlayerCfg(m) ==
    PlayerConfig(PLAYER_HEIGHT, m.max_jump_height, m.max_jump_distance,
                 m.max_safe_drop)

\* a generator shared by all attempts and calls, never reseeded
CarriedRng == rng
\* a generator seeded once per call and carried through its retries
CallRng == IF attempt = 0 THEN Random(seed) ELSE rng
\* rng = random.Random(seed + attempt)
AttemptRng == Random(seed + attempt)

\* a loop of one iteration more
LongRange == 0 .. MAX_RETRIES
\* range(MAX_RETRIES): the values of attempt the loop runs with
AttemptRange == 0 .. (MAX_RETRIES - 1)

\* a gate that lets every report through
AcceptedAny(report) == TRUE
\* "if report.reachable": the gate in front of the return
Accepted(report) == report.reachable

\* the record of a finished call
Finished(outcome, res) ==
    [call |-> calls, seed |-> seed, knobs |-> knobs, spec |-> spec,
     outcome |-> outcome, result |-> res]

GenInit ==
    /\ pc = "idle"
    /\ seed = 0
    /\ knobs = GeneratorKnobs(8, 2, 6, 4, 2)
    /\ spec = MovementSpec(4, 5, 6)
    /\ attempt = 0
    /\ rng = Random(0)
    /\ result = NoResult
    /\ calls = 0
    /\ memo = {}

CallWith(s, k, m) ==
    /\ pc' = "running"
    /\ seed' = s
    /\ knobs' = k
    /\ spec' = m
    /\ attempt' = 0
    /\ result' = NoResult
    /\ calls' = calls + 1
    /\ UNCHANGED <<rng, memo>>

\* generate_level(seed, knobs, spec) is called
GenCall ==
    /\ pc = "idle"
    /\ \E s \in Seeds, k \in KnobChoices, m \in SpecChoices : CallWith(s, k, m)
    /\ UNCHANGED <<refvars, gridvars, objvars, valvars, tilevars, seamvars, edgevars, chainvars, smoothvars>>

\* the end of an iteration: "continue" when no footholds were placed,
\* "return GenerationResult(...)" when the report passes the gate
GenDecide(out, grid, report) ==
    IF out.ok /\ Accepted(report)
    THEN /\ pc' = "returned"
         /\ result' = GenerationResult(grid, out.footholds, report,
                                       seed + attempt, attempt + 1)
         /\ memo' = memo \cup {Finished("returned", result')}
         /\ UNCHANGED attempt
    ELSE /\ attempt' = attempt + 1
         /\ UNCHANGED <<pc, result, memo>>

\* "report = validator.validate(grid)"
GenValidate(out, grid) == GenDecide(out, grid, Validate(grid, PlayerCfg(spec)))

\* "grid = footholds_to_grid(footholds)"
GenBuild(out) ==
    /\ rng' = out.rng
    /\ GenValidate(out, FootholdsToGrid(out.footholds))

\* one iteration of "for attempt in range(MAX_RETRIES)"
GenAttempt ==
    /\ pc = "running"
    /\ attempt \in AttemptRange
    /\ GenBuild(GenerateFootholds(AttemptRng, knobs, spec))
    /\ UNCHANGED <<seed, knobs, spec, calls>>
    /\ UNCHANGED <<refvars, gridvars, objvars, valvars, tilevars, seamvars, edgevars, chainvars, smoothvars>>

\* the loop ran out: raise RuntimeError
GenRaise ==
    /\ pc = "running"
    /\ attempt \notin AttemptRange
    /\ pc' = "raised"
    /\ memo' = memo \cup {Finished("raised", NoResult)}
    /\ UNCHANGED <<seed, knobs, spec, attempt, rng, result, calls>>
    /\ UNCHANGED <<refvars, gridvars, objvars, valvars, tilevars, seamvars, edgevars, chainvars, smoothvars>>

\* the inputs of the repeated calls: one that returns on its second
\* attempt, one that returns on its first, one that raises
DetInputs ==
    { <<1, GeneratorKnobs(8, 2, 6, 4, 2), MovementSpec(4, 5, 6)>>,
      <<2, GeneratorKnobs(8, 2, 6, 4, 2), MovementSpec(4, 5, 6)>>,
      <<0, GeneratorKnobs(1, 2, 4, 4, 2), MovementSpec(4, 5, 6)>> }

\* generate_level is called again, after any earlier calls
DetCall ==
    /\ pc # "running"
    /\ calls < MaxCalls
    /\ \E i \in DetInputs : CallWith(i[1], i[2], i[3])
    /\ UNCHANGED <<refvars, gridvars, objvars, valvars, tilevars, seamvars, edgevars, chainvars, smoothvars>>

GenNext == GenCall \/ GenAttempt \/ GenRaise
DetNext == DetCall \/ GenAttempt \/ GenRaise

(***************************************************************************)
(* refine_region as a state machine: the call runs steps 1 to 4, then one  *)
(* action per iteration of the retry loop.                                 *)
(***************************************************************************)

MaxRefSeed == 1
RefSeeds == 0 .. MaxRefSeed

\* a level the generator returns
GeneratedLevel ==
    FootholdsToGrid(GenerateFootholds(Random(3), GeneratorKnobs(8, 2, 6, 4, 2),
                                      MovementSpec(4, 5, 6)).footholds)
\* a floor of the given flags along the bottom row, START left, GOAL right
FlatLevel(floor) ==
    Set(Set(ApplyRect(EmptyGrid, 0, H - 1, W, 1, floor, "overwrite"),
            2, H - 2, START), 28, H - 2, GOAL)
\* a full-height wall between START and GOAL
WalledLevel == ApplyRect(FlatLevel(SOLID), 15, 1, 1, 30, SOLID, "overwrite")
\* a ledge above the floor, and hazards under two columns
LedgeLevel ==
    Set(Set(ApplyRect(FlatLevel(SOLID), 10, 27, 3, 1, SOLID, "overwrite"),
            9, 30, HAZARD), 18, 30, HAZARD)
\* two steps up to a GOAL on a high platform
StairLevel ==
    LET steps == ApplyRect(ApplyRect(ApplyRect(
                    ApplyRect(EmptyGrid, 0, H - 1, W, 1, SOLID, "overwrite"),
                    12, 27, 4, 1, SOLID, "overwrite"),
                    17, 23, 4, 1, SOLID, "overwrite"),
                    24, 20, 5, 1, SOLID, "overwrite")
    IN  Set(Set(steps, 2, H - 2, START), 26, 19, GOAL)

RefCase(g, rect) == [grid |-> g, rect |-> rect]
RefCases ==
    { RefCase(GeneratedLevel, RefineRect(8, 10, 15, 16)),
      RefCase(FlatLevel(ONEWAY), RefineRect(9, 24, 12, 7)),
      RefCase(FlatLevel(ONEWAY), RefineRect(9, 24, 12, 8)),
      RefCase(FlatLevel(SOLID), RefineRect(1, 22, 14, 10)),
      RefCase(FlatLevel(SOLID), RefineRect(18, 22, 12, 10)),
      RefCase(FlatLevel(SOLID), RefineRect(10, 2, 6, 6)),
      RefCase(FlatLevel(SOLID), RefineRect(9, 26, 1, 5)),
      RefCase(WalledLevel, RefineRect(9, 22, 12, 9)),
      RefCase(LedgeLevel, RefineRect(9, 26, 10, 5)),
      RefCase(StairLevel, RefineRect(10, 20, 12, 11)) }
Requests ==
    { RefineRequest(0, 0, FALSE, FALSE), RefineRequest(2, 0, TRUE, FALSE),
      RefineRequest(0, -2, FALSE, TRUE), RefineRequest(2, 2, TRUE, TRUE) }
RefKnobs == GeneratorKnobs(8, 2, 4, 4, 2)
RefSpec == MovementSpec(4, 5, 6)

NoReport == Report(FALSE, 0, 0, 0, <<>>)
NoOutput ==
    [grid |-> <<>>, report |-> RefineReport(FALSE, NoPos, NoPos, 0, NoReport, <<>>)]
NoPrep ==
    [seam_entry |-> NoPos, seam_exit |-> NoPos, inner_knobs |-> RefKnobs,
     start_inside |-> FALSE, goal_inside |-> FALSE, orig_report |-> NoReport]

\* a success return that skips the validation gate
RefineAcceptedAny(report) == TRUE
\* "if report.reachable": the gate in front of the success return
RefineAccepted(report) == report.reachable

\* a failure return that hands back the grid with rect cleared
ClearedOnFailure(g, rect) == ClearRect(Copy(g), rect)
\* "return grid.copy(), RefineReport(success=False, ...)"
FailureGrid(g, rect) == Copy(g)

RefInit ==
    /\ rpc = "idle"
    /\ rargs = [grid |-> EmptyGrid, rect |-> RefineRect(0, 0, 1, 1),
                request |-> RefineRequest(0, 0, FALSE, FALSE), seed |-> 0,
                knobs |-> RefKnobs, spec |-> RefSpec]
    /\ rprep = NoPrep
    /\ rattempt = 0
    /\ rout = NoOutput

\* steps 2 to 4 of refine_region, with the report of the original grid
RefPrepare(c, q, cfg, orig_report) ==
    IF ~orig_report.reachable
    THEN /\ rpc' = "failed"
         /\ rout' = [grid |-> FailureGrid(c.grid, c.rect),
                     report |-> RefineReport(FALSE, NoPos, NoPos, 0, orig_report,
                         <<Reason("Original grid is not reachable", 0)>>)]
         /\ rprep' = NoPrep
    ELSE \E seams \in FindSeams(c.grid, c.rect, cfg, RefSpec) :
         IF seams[1] = NoPos \/ seams[2] = NoPos
         THEN /\ rpc' = "failed"
              /\ rout' = [grid |-> FailureGrid(c.grid, c.rect),
                          report |-> RefineReport(FALSE, seams[1], seams[2], 0,
                             orig_report,
                             <<Reason("Could not detect seam points on rect boundary", 0)>>)]
              /\ rprep' = NoPrep
         ELSE LET orig_start == FindFlagPos(c.grid, START)
                  orig_goal == FindFlagPos(c.grid, GOAL)
              IN  /\ rpc' = "looping"
                  /\ rout' = NoOutput
                  /\ rprep' =
                       [seam_entry |-> seams[1], seam_exit |-> seams[2],
                        inner_knobs |-> ApplyDeltas(RefKnobs, q),
                        start_inside |-> orig_start # NoPos
                            /\ Contains(c.rect, orig_start[1], orig_start[2]),
                        goal_inside |-> orig_goal # NoPos
                            /\ Contains(c.rect, orig_goal[1], orig_goal[2]),
                        orig_report |-> orig_report]

\* refine_region(grid, rect, request, seed, knobs, spec) is called and runs
\* up to the retry loop
RefCall ==
    /\ rpc = "idle"
    /\ \E c \in RefCases, q \in Requests, s \in RefSeeds :
        /\ rargs' = [grid |-> c.grid, rect |-> c.rect, request |-> q,
                     seed |-> s, knobs |-> RefKnobs, spec |-> RefSpec]
        /\ rattempt' = 0
        /\ RefPrepare(c, q, PlayerCfg(RefSpec),
                      Validate(c.grid, PlayerCfg(RefSpec)))
    /\ UNCHANGED <<genvars, gridvars, objvars, valvars, tilevars, seamvars, edgevars, chainvars, smoothvars>>

\* the end of an iteration: the success return when the report passes the
\* gate, the next attempt otherwise
RefDecide(out, new_grid, report) ==
    IF out.ok /\ RefineAccepted(report)
    THEN /\ rpc' = "succeeded"
         /\ rout' = [grid |-> new_grid,
                     report |-> RefineReport(TRUE, rprep.seam_entry,
                         rprep.seam_exit, Len(out.footholds), report, <<>>)]
         /\ UNCHANGED rattempt
    ELSE /\ rattempt' = rattempt + 1
         /\ UNCHANGED <<rpc, rout>>

\* "report = validator.validate(new_grid)"
RefValidate(out, new_grid) ==
    RefDecide(out, new_grid, Validate(new_grid, PlayerCfg(rargs.spec)))

\* the copy of the grid, cleared, painted and decorated
RefBuild(out) ==
    RefValidate(out, RefinedGrid(rargs.grid, rargs.rect, rargs.request,
                                 out.footholds, out.rng, rprep.start_inside,
                                 rprep.goal_inside))

\* one iteration of "for attempt in range(MAX_INNER_RETRIES)"
RefAttempt ==
    /\ rpc = "looping"
    /\ rattempt < MAX_INNER_RETRIES
    /\ RefBuild(GenerateInnerFootholds(Random(rargs.seed + rattempt),
                    rprep.inner_knobs, rargs.spec, rargs.rect,
                    rprep.seam_entry, rprep.seam_exit))
    /\ UNCHANGED <<rargs, rprep>>
    /\ UNCHANGED <<genvars, gridvars, objvars, valvars, tilevars, seamvars, edgevars, chainvars, smoothvars>>

\* all attempts exhausted
RefExhausted ==
    /\ rpc = "looping"
    /\ rattempt = MAX_INNER_RETRIES
    /\ rpc' = "failed"
    /\ rout' = [grid |-> FailureGrid(rargs.grid, rargs.rect),
                report |-> RefineReport(FALSE, rprep.seam_entry, rprep.seam_exit,
                    0, rprep.orig_report,
                    <<Reason("All refinement attempts failed", MAX_INNER_RETRIES)>>)]
    /\ UNCHANGED <<rargs, rprep, rattempt>>
    /\ UNCHANGED <<genvars, gridvars, objvars, valvars, tilevars, seamvars, edgevars, chainvars, smoothvars>>

RefNext == RefCall \/ RefAttempt \/ RefExhausted

\* a run that makes one call, of generate_level or of refine_region
OnlyGenCall == rpc = "idle" /\ GenCall
OnlyRefCall == pc = "idle" /\ RefCall
OneCallNext ==
    OnlyGenCall \/ GenAttempt \/ GenRaise \/ OnlyRefCall \/ RefAttempt \/ RefExhausted

(***************************************************************************)
(* SemanticGrid32 as a state machine: one grid, one action per method.     *)
(***************************************************************************)

NoData == Payload(0, 0, <<>>)
Ret(op, error, data, g) == [op |-> op, error |-> error, data |-> data, grid |-> g]

\* arguments of the calls: a cell, a corner cell, a cell off the grid; a
\* flag, and a value wider than a byte
GridPoints == {<<5, 7>>, <<31, 0>>, <<32, 0>>}
GridFlags == {SOLID, 449}

\* payloads handed to fromJSON: the grid's own, wrong sizes, a cut padding
\* character, a cut group, data in place of the padding, no cells
PayloadsOf(g) ==
    LET d == ToJSON(g)
        n == Len(d.cells)
    IN  { d, Payload(31, H, d.cells), Payload(W, 33, d.cells),
          Payload(31, 31, SubSeq(d.cells, 1, n - 4)),
          Payload(W, H, SubSeq(d.cells, 1, n - 1)),
          Payload(W, H, SubSeq(d.cells, 1, n - 4)),
          Payload(W, H, SubSeq(d.cells, 1, n - 2) \o <<0, 0>>),
          Payload(W, H, <<>>) }

GridInit ==
    /\ cells = EmptyGrid
    /\ ret = Ret("init", "none", NoData, <<>>)

\* a cell method: IndexError and no change when (x, y) is off the grid
CellCall(op, p, changed) ==
    /\ IF InBounds(p[1], p[2])
       THEN cells' = changed /\ ret' = Ret(op, "none", NoData, <<>>)
       ELSE cells' = cells /\ ret' = Ret(op, "IndexError", NoData, <<>>)
    /\ UNCHANGED <<genvars, refvars, objvars, valvars, tilevars, seamvars, edgevars, chainvars, smoothvars>>

GridSet ==
    \E p \in GridPoints, f \in GridFlags :
        CellCall("set", p, Set(cells, p[1], p[2], f))
GridAddFlags ==
    \E p \in GridPoints, f \in GridFlags :
        CellCall("addFlags", p, AddFlags(cells, p[1], p[2], f))
GridRemoveFlags ==
    \E p \in GridPoints, f \in GridFlags :
        CellCall("removeFlags", p, RemoveFlags(cells, p[1], p[2], f))
GridFill ==
    /\ cells' = Fill(cells, SOLID)
    /\ ret' = Ret("fill", "none", NoData, <<>>)
    /\ UNCHANGED <<genvars, refvars, objvars, valvars, tilevars, seamvars, edgevars, chainvars, smoothvars>>
GridClear ==
    /\ cells' = Clear(cells)
    /\ ret' = Ret("clear", "none", NoData, <<>>)
    /\ UNCHANGED <<genvars, refvars, objvars, valvars, tilevars, seamvars, edgevars, chainvars, smoothvars>>
GridApplyRect ==
    \E mode \in {"overwrite", "add", "remove"} :
        /\ cells' = ApplyRect(cells, 30, 3, 4, 2, SOLID, mode)
        /\ ret' = Ret("applyRect", "none", NoData, <<>>)
        /\ UNCHANGED <<genvars, refvars, objvars, valvars, tilevars, seamvars, edgevars, chainvars, smoothvars>>
GridToJSON ==
    /\ ret' = Ret("toJSON", "none", ToJSON(cells), <<>>)
    /\ UNCHANGED <<cells, genvars, refvars, objvars, valvars, tilevars, seamvars, edgevars, chainvars, smoothvars>>
GridFromJSON ==
    \E data \in PayloadsOf(cells) :
        LET r == FromJSON(data)
        IN  /\ ret' = Ret("fromJSON", r.error, data, r.grid)
            /\ UNCHANGED <<cells, genvars, refvars, objvars, valvars, tilevars, seamvars, edgevars, chainvars, smoothvars>>

GridNext ==
    \/ GridSet \/ GridAddFlags \/ GridRemoveFlags \/ GridFill \/ GridClear
    \/ GridApplyRect \/ GridToJSON \/ GridFromJSON

(***************************************************************************)
(* SemanticGrid32 objects g and h = g.copy(): each object's _cells field   *)
(* refers to a list on the heap, and every method reads and writes the     *)
(* list its own object refers to.                                          *)
(***************************************************************************)

Call(target, op, args, error, value) ==
    [target |-> target, op |-> op, args |-> args, error |-> error,
     value |-> value]

\* the list an object's _cells refers to
Ref(target) == IF target = "g" THEN g_cells ELSE h_cells

\* "g._cells = self._cells" : the copy shares the original's list
SameList(src, fresh) == src
\* "g._cells = self._cells[:]": the slice is a new list
SlicedList(src, fresh) == fresh

ObjInit ==
    /\ heap = [id \in 1 .. 2 |-> EmptyGrid]
    /\ g_cells = 1
    /\ h_cells = 0
    /\ last = Call("g", "init", <<>>, "none", 0)

\* h = g.copy(); an earlier h is dropped
ObjCopy ==
    /\ heap' = [heap EXCEPT ![2] = Copy(heap[g_cells])]
    /\ h_cells' = SlicedList(g_cells, 2)
    /\ last' = Call("g", "copy", <<>>, "none", 0)
    /\ UNCHANGED <<g_cells, genvars, refvars, gridvars, valvars, tilevars, seamvars, edgevars, chainvars, smoothvars>>

\* get, set, addFlags, removeFlags: _index raises IndexError before the
\* list is read or written
CellMethod(target, op, x, y, flags, changed, value) ==
    /\ Ref(target) # 0
    /\ IF InBounds(x, y)
       THEN /\ heap' = [heap EXCEPT ![Ref(target)] = changed]
            /\ last' = Call(target, op, <<x, y, flags>>, "none", value)
       ELSE /\ heap' = heap
            /\ last' = Call(target, op, <<x, y, flags>>, "IndexError", 0)
    /\ UNCHANGED <<g_cells, h_cells, genvars, refvars, gridvars, valvars, tilevars, seamvars, edgevars, chainvars, smoothvars>>

ObjGet(target, x, y) ==
    CellMethod(target, "get", x, y, 0, heap[Ref(target)],
               Get(heap[Ref(target)], x, y))
ObjSet(target, x, y, flags) ==
    CellMethod(target, "set", x, y, flags,
               Set(heap[Ref(target)], x, y, flags), 0)
ObjAddFlags(target, x, y, flags) ==
    CellMethod(target, "addFlags", x, y, flags,
               AddFlags(heap[Ref(target)], x, y, flags), 0)
ObjRemoveFlags(target, x, y, flags) ==
    CellMethod(target, "removeFlags", x, y, flags,
               RemoveFlags(heap[Ref(target)], x, y, flags), 0)

\* fill, clear, applyRect: no bounds error
BulkMethod(target, op, args, changed) ==
    /\ Ref(target) # 0
    /\ heap' = [heap EXCEPT ![Ref(target)] = changed]
    /\ last' = Call(target, op, args, "none", 0)
    /\ UNCHANGED <<g_cells, h_cells, genvars, refvars, gridvars, valvars, tilevars, seamvars, edgevars, chainvars, smoothvars>>

ObjFill(target, flags) ==
    BulkMethod(target, "fill", <<flags>>, Fill(heap[Ref(target)], flags))
ObjClear(target) ==
    BulkMethod(target, "clear", <<>>, Clear(heap[Ref(target)]))
ObjApplyRect(target, x, y, w, h, flags, mode) ==
    BulkMethod(target, "applyRect", <<x, y, w, h, flags, mode>>,
               ApplyRect(heap[Ref(target)], x, y, w, h, flags, mode))

\* the calls made on g and on its copy
CopySet == \E t \in {"g", "h"} : ObjSet(t, 5, 7, SOLID)
CopyAddFlags == \E t \in {"g", "h"} : ObjAddFlags(t, 5, 7, GOAL)
CopyRemoveFlags == \E t \in {"g", "h"} : ObjRemoveFlags(t, 5, 7, SOLID)
CopyFill == \E t \in {"g", "h"} : ObjFill(t, LADDER)
CopyClear == \E t \in {"g", "h"} : ObjClear(t)
CopyApplyRect == \E t \in {"g", "h"} : ObjApplyRect(t, 30, 3, 4, 2, HAZARD, "add")

CopyNext ==
    \/ ObjCopy \/ CopySet \/ CopyAddFlags \/ CopyRemoveFlags \/ CopyFill
    \/ CopyClear \/ CopyApplyRect



\* the calls made on g with coordinates and rectangles on, across and off
\* the edges of the grid
ArgPoints == {<<5, 7>>, <<-1, 7>>, <<32, 7>>, <<5, -1>>, <<5, 32>>}
ArgRects == {<<-2, -1, 4, 3>>, <<30, 30, 5, 5>>, <<3, 3, 0, 2>>, <<3, 3, 2, -1>>}
ArgFlags == {SOLID, SOLID + HAZARD + GOAL}

ArgGet == \E p \in ArgPoints : ObjGet("g", p[1], p[2])
ArgSet == \E p \in ArgPoints : ObjSet("g", p[1], p[2], SOLID)
ArgAddFlags == \E p \in ArgPoints : ObjAddFlags("g", p[1], p[2], SOLID)
ArgRemoveFlags == \E p \in ArgPoints : ObjRemoveFlags("g", p[1], p[2], SOLID)
ArgApplyRect ==
    \E r \in ArgRects, f \in ArgFlags, mode \in {"overwrite", "add", "remove"} :
        ObjApplyRect("g", r[1], r[2], r[3], r[4], f, mode)

ArgNext == ArgGet \/ ArgSet \/ ArgAddFlags \/ ArgRemoveFlags \/ ArgApplyRect


(***************************************************************************)
(* ReachabilityValidator.validate as a state machine: the call, then its   *)
(* return or its exception.                                                *)
(***************************************************************************)

\* grids with no marker at all, and with a START marker only
StartOnlyLevel == Set(ApplyRect(EmptyGrid, 0, H - 1, W, 1, SOLID, "overwrite"),
                      2, H - 2, START)
ValGrids == { FlatLevel(SOLID), FlatLevel(ONEWAY), WalledLevel, LedgeLevel,
              StairLevel, GeneratedLevel, EmptyGrid, StartOnlyLevel }
\* None, cells on and above the floor, cells off the grid on either side
ValStarts == { NoArg, <<2, 30>>, <<20, 30>>, <<5, 5>>, <<32, 0>>, <<-1, -1>> }
ValGoals == { NoArg, <<28, 30>>, <<2, 30>>, <<10, 26>>, <<0, -33>> }
ValCfg == PlayerConfig(PLAYER_HEIGHT, 4, 5, 6)

NoOutcome == Outcome("none", Report(FALSE, 0, 0, 0, <<>>), <<>>)

ValInit ==
    /\ vpc = "idle"
    /\ vargs = [grid |-> EmptyGrid, start |-> NoArg, goal |-> NoArg]
    /\ vout = NoOutcome

ValCall ==
    /\ vpc # "called"
    /\ \E g \in ValGrids, s \in ValStarts, t \in ValGoals :
          vargs' = [grid |-> g, start |-> s, goal |-> t]
    /\ vpc' = "called"
    /\ vout' = NoOutcome
    /\ UNCHANGED <<genvars, refvars, gridvars, objvars, tilevars, seamvars, edgevars, chainvars, smoothvars>>

ValEnd(out) ==
    /\ vout' = out
    /\ vpc' = IF out.error = "none" THEN "returned" ELSE "raised"

ValReturn ==
    /\ vpc = "called"
    /\ ValidateWith(vargs.grid, ValCfg, vargs.start, vargs.goal).error = "none"
    /\ ValEnd(ValidateWith(vargs.grid, ValCfg, vargs.start, vargs.goal))
    /\ UNCHANGED <<vargs, genvars, refvars, gridvars, objvars, tilevars, seamvars, edgevars, chainvars, smoothvars>>

ValRaise ==
    /\ vpc = "called"
    /\ ValidateWith(vargs.grid, ValCfg, vargs.start, vargs.goal).error # "none"
    /\ ValEnd(ValidateWith(vargs.grid, ValCfg, vargs.start, vargs.goal))
    /\ UNCHANGED <<vargs, genvars, refvars, gridvars, objvars, tilevars, seamvars, edgevars, chainvars, smoothvars>>

ValNext == ValCall \/ ValReturn \/ ValRaise


(***************************************************************************)
(* SemanticToTilemap as a state machine: a mapper is constructed with its  *)
(* tile IDs, then converts grids.                                          *)
(***************************************************************************)

NoVariants == <<>>
\* a variants table for three of the sixteen masks
SomeVariants == (15 :> 10) @@ (11 :> 11) @@ (0 :> 12)

\* every choice of zero or non-zero markers, with and without autotiling,
\* with the default empty tile and another
TileConfigs ==
    { TileIds(1, v, 30, 31, 32, sm, gm, e) :
        v \in {NoVariants, SomeVariants}, sm \in {0, 40}, gm \in {0, 41},
        e \in {0, 9} }

\* every byte value, each in four cells
PaletteGrid == [i \in CellIdx |-> i % 256]
\* every combination of the six flags, in another arrangement
ShuffledGrid == [i \in CellIdx |-> (i * 7 + i \div W) % 64]
TileGrids ==
    { PaletteGrid, ShuffledGrid, EmptyGrid, FlatLevel(SOLID), FlatLevel(ONEWAY),
      LedgeLevel, StairLevel, GeneratedLevel }

\* the matrix of a mapper that has converted nothing yet
NoTiles == [i \in CellIdx |-> 0]

\* SemanticToTilemap(): the default TileIds
TileInit ==
    /\ tpc = "new"
    /\ tile_ids = TileIds(1, NoVariants, 2, 3, 4, 0, 0, 0)
    /\ tgrid = EmptyGrid
    /\ tiles = NoTiles

\* SemanticToTilemap(tile_ids): a new mapper replaces the one in use
TileNew ==
    /\ \E t \in TileConfigs : tile_ids' = t
    /\ tpc' = "new"
    /\ tgrid' = EmptyGrid
    /\ tiles' = NoTiles
    /\ UNCHANGED <<genvars, refvars, gridvars, objvars, valvars, seamvars, edgevars, chainvars, smoothvars>>

\* mapper.convert(grid)
TileConvert ==
    /\ \E g \in TileGrids :
          /\ tgrid' = g
          /\ tiles' = Convert(tile_ids, g)
    /\ tpc' = "converted"
    /\ UNCHANGED tile_ids
    /\ UNCHANGED <<genvars, refvars, gridvars, objvars, valvars, seamvars, edgevars, chainvars, smoothvars>>

TileNext == TileNew \/ TileConvert


(***************************************************************************)
(* _find_seams as a state machine: the call, then its return with the      *)
(* reachable set it computed.                                              *)
(***************************************************************************)

\* a floor under two walls that stop two rows above it, HAZARD in the floor
\* row under each wall, and one SOLID cell hanging between the walls
ChimneyLevel ==
    LET walls == ApplyRect(ApplyRect(FlatLevel(SOLID), 14, 0, 1, 29, SOLID, "overwrite"),
                           16, 0, 1, 29, SOLID, "overwrite")
    IN  Set(Set(Set(walls, 14, 30, HAZARD), 16, 30, HAZARD), 15, 27, SOLID)

SeamGrids ==
    { ChimneyLevel, FlatLevel(SOLID), FlatLevel(ONEWAY), WalledLevel, LedgeLevel,
      StairLevel, GeneratedLevel }
SeamRects ==
    { RefineRect(15, 24, 6, 4), RefineRect(9, 24, 7, 4), RefineRect(9, 24, 12, 7),
      RefineRect(1, 22, 14, 10), RefineRect(18, 22, 12, 10), RefineRect(10, 2, 6, 6),
      RefineRect(8, 10, 15, 16), RefineRect(10, 20, 12, 11) }

NoSeams == [reachable |-> {}, seam_entry |-> NoPos, seam_exit |-> NoPos]

SeamInit ==
    /\ spc = "idle"
    /\ sargs = [grid |-> EmptyGrid, rect |-> RefineRect(0, 0, 1, 1)]
    /\ sout = NoSeams

\* _find_seams(grid, rect, validator, spec) is called
SeamCall ==
    /\ spc # "called"
    /\ \E g \in SeamGrids, r \in SeamRects : sargs' = [grid |-> g, rect |-> r]
    /\ spc' = "called"
    /\ sout' = NoSeams
    /\ UNCHANGED <<genvars, refvars, gridvars, objvars, valvars, tilevars, edgevars, chainvars, smoothvars>>

\* "reachable = _bfs_reachable(grid, valid, start, spec)", {} when the call
\* returns before it
SeamReachable(g, valid, start, m) ==
    IF start = NoPos \/ start \notin valid THEN {}
    ELSE BfsReachable(g, valid, start, m)

\* the call returns (seam_entry, seam_exit)
SeamReturn ==
    /\ spc = "called"
    /\ \E seams \in FindSeams(sargs.grid, sargs.rect, PlayerCfg(RefSpec), RefSpec) :
          sout' = [reachable |-> SeamReachable(sargs.grid,
                                     ValidSet(sargs.grid, PlayerCfg(RefSpec)),
                                     FindFlagPos(sargs.grid, START), RefSpec),
                   seam_entry |-> seams[1], seam_exit |-> seams[2]]
    /\ spc' = "returned"
    /\ UNCHANGED <<sargs, genvars, refvars, gridvars, objvars, valvars, tilevars, edgevars, chainvars, smoothvars>>

SeamNext == SeamCall \/ SeamReturn


(***************************************************************************)
(* The validator's masks, corridor predicate and neighbours, queried on a  *)
(* grid and on the same grid with HAZARD flags added or removed.           *)
(***************************************************************************)

\* a ONEWAY ledge and a SOLID ledge over the floor
TwoLedgeLevel ==
    ApplyRect(ApplyRect(FlatLevel(SOLID), 10, 27, 3, 1, ONEWAY, "overwrite"),
              20, 27, 3, 1, SOLID, "overwrite")

EdgeGrids ==
    { FlatLevel(SOLID), LedgeLevel, StairLevel, GeneratedLevel, WalledLevel,
      ChimneyLevel, TwoLedgeLevel }
\* a spike strip in the feet row, hazard air over the floor, hazard
\* everywhere above the floor, and every HAZARD flag removed
HazardPatch(x, y, w, h, mode) == [x |-> x, y |-> y, w |-> w, h |-> h, mode |-> mode]
HazardPatches ==
    { HazardPatch(14, 30, 4, 1, "add"), HazardPatch(3, 27, 20, 3, "add"),
      HazardPatch(0, 0, W, H - 1, "add"), HazardPatch(0, 0, W, H, "remove") }
Patched(g, p) == ApplyRect(g, p.x, p.y, p.w, p.h, HAZARD, p.mode)
EdgeSources == { <<13, 30>>, <<2, 30>>, <<11, 30>>, <<21, 30>>, <<11, 26>>, <<21, 26>> }

\* the candidates of _reachable_from that lie on the grid
Window(cfg, pos) ==
    {q \in {<<i % W, i \div W>> : i \in CellIdx} :
        /\ q # pos
        /\ Abs(q[1] - pos[1]) <= cfg.max_jump_distance
        /\ q[2] - pos[2] >= -cfg.max_jump_height
        /\ q[2] - pos[2] <= cfg.max_safe_drop}

\* the candidates for which _corridor_ok holds
CorridorTargets(g, cfg, pos) ==
    {q \in Window(cfg, pos) : CorridorOk(g, cfg, pos[1], pos[2], q[1], q[2])}

Answer(g, cfg, valid, pos) ==
    [corridor |-> CorridorTargets(g, cfg, pos), valid |-> valid,
     nbrs |-> ReachableFrom(g, valid, cfg, pos)]

NoAnswer == [corridor |-> {}, valid |-> {}, nbrs |-> {}]

EdgeInit ==
    /\ epc = "idle"
    /\ eargs = [base |-> EmptyGrid, patch |-> HazardPatch(0, 0, 0, 0, "add"),
                src |-> <<0, 0>>]
    /\ eout = <<NoAnswer, NoAnswer>>

\* the grid of the query with its HAZARD flags changed
HazardGrid == Patched(eargs.base, eargs.patch)

\* a query is put: a grid, the change of its HAZARD flags and a source
EdgeAsk ==
    /\ epc # "asked"
    /\ \E g \in EdgeGrids, p \in HazardPatches, pos \in EdgeSources :
          eargs' = [base |-> g, patch |-> p, src |-> pos]
    /\ eout' = <<NoAnswer, NoAnswer>>
    /\ epc' = "asked"
    /\ UNCHANGED <<genvars, refvars, gridvars, objvars, valvars, tilevars, seamvars, chainvars, smoothvars>>

\* the masks, the corridor predicate and _reachable_from are evaluated on
\* both grids
EdgeAnswer ==
    /\ epc = "asked"
    /\ eout' = << Answer(eargs.base, ValCfg, ValidSet(eargs.base, ValCfg), eargs.src),
                  Answer(HazardGrid, ValCfg, ValidSet(HazardGrid, ValCfg), eargs.src) >>
    /\ epc' = "answered"
    /\ UNCHANGED <<eargs, genvars, refvars, gridvars, objvars, valvars, tilevars, seamvars, chainvars, smoothvars>>

EdgeNext == EdgeAsk \/ EdgeAnswer


(***************************************************************************)
(* The inner chain of a refinement as a state machine: refine_region's     *)
(* seam detection and the chain its first attempt builds, for knobs of     *)
(* several minimum widths and rects whose seams are fallback seams.        *)
(***************************************************************************)

ChainGrids == { TwoLedgeLevel, FlatLevel(SOLID), LedgeLevel, StairLevel }
\* two rects around the right ledge of TwoLedgeLevel whose left column has
\* no standing position, and rects with seams on both side columns
ChainRects ==
    { RefineRect(19, 24, 3, 3), RefineRect(18, 24, 5, 3), RefineRect(9, 24, 12, 7),
      RefineRect(1, 22, 14, 10), RefineRect(18, 22, 12, 10), RefineRect(10, 20, 12, 11) }
ChainKnobs ==
    { GeneratorKnobs(8, 2, 4, 4, 2), GeneratorKnobs(8, 3, 5, 4, 2),
      GeneratorKnobs(8, 4, 6, 0, 0) }
ChainSeeds == 0 .. MaxRefSeed

NoChain == [seam_entry |-> NoPos, seam_exit |-> NoPos, ok |-> FALSE, footholds |-> <<>>]

ChainInit ==
    /\ ipc = "idle"
    /\ iargs = [grid |-> EmptyGrid, rect |-> RefineRect(0, 0, 1, 1), seed |-> 0,
                knobs |-> RefKnobs]
    /\ iout = NoChain

\* refine_region(grid, rect, RefineRequest(), seed, knobs, spec) is called
ChainCall ==
    /\ ipc # "called"
    /\ \E g \in ChainGrids, r \in ChainRects, s \in ChainSeeds, k \in ChainKnobs :
          iargs' = [grid |-> g, rect |-> r, seed |-> s, knobs |-> k]
    /\ ipc' = "called"
    /\ iout' = NoChain
    /\ UNCHANGED <<genvars, refvars, gridvars, objvars, valvars, tilevars, seamvars, edgevars, smoothvars>>

\* "inner_fhs = _generate_inner_footholds(rng, inner_knobs, spec, rect,
\* seam_entry, seam_exit)" of attempt 0
ChainBuilt(seams, out) ==
    [seam_entry |-> seams[1], seam_exit |-> seams[2], ok |-> out.ok,
     footholds |-> out.footholds]

\* seam detection, and the chain when both seams were found
ChainReturn ==
    /\ ipc = "called"
    /\ \E seams \in FindSeams(iargs.grid, iargs.rect, PlayerCfg(RefSpec), RefSpec) :
          iout' = IF seams[1] = NoPos \/ seams[2] = NoPos
                  THEN [NoChain EXCEPT !.seam_entry = seams[1], !.seam_exit = seams[2]]
                  ELSE ChainBuilt(seams,
                           GenerateInnerFootholds(Random(iargs.seed),
                               ApplyDeltas(iargs.knobs, RefineRequest(0, 0, FALSE, FALSE)),
                               RefSpec, iargs.rect, seams[1], seams[2]))
    /\ ipc' = "returned"
    /\ UNCHANGED <<iargs, genvars, refvars, gridvars, objvars, valvars, tilevars, seamvars, edgevars, smoothvars>>

ChainNext == ChainCall \/ ChainReturn

(***************************************************************************)
(* _smooth_silhouette as a state machine: one call on a grid whose row 20  *)
(* bears SOLID in a chosen set of columns.                                 *)
(***************************************************************************)

\* the sets of SOLID columns of the row
SmoothColumns == SUBSET (10 .. 15)
\* rects with the row on top, as wide as the columns, narrower, and one
\* column wide; a rect with the row inside it, under its top row
SmoothRects ==
    { RefineRect(10, 20, 6, 3), RefineRect(11, 20, 4, 2), RefineRect(12, 20, 1, 1),
      RefineRect(10, 19, 6, 3) }

\* the grid of a call: a floor with START and GOAL, a lone SOLID|HAZARD
\* tile in row 21, and SOLID in the chosen columns of row 20
RECURSIVE SolidAt(_, _, _)
SolidAt(g, xs, y) ==
    IF xs = {} THEN g
    ELSE LET x == CHOOSE c \in xs : TRUE
         IN  SolidAt(AddFlags(g, x, y, SOLID), xs \ {x}, y)
SmoothGrid(xs) == SolidAt(Set(FlatLevel(SOLID), 12, 21, SOLID + HAZARD), xs, 20) @@ <<>>

SmoothInit ==
    /\ mpc = "idle"
    /\ margs = [cols |-> {}, rect |-> RefineRect(0, 0, 1, 1)]
    /\ mout = EmptyGrid

\* _smooth_silhouette(grid, rect) is called
SmoothCall ==
    /\ mpc # "called"
    /\ \E xs \in SmoothColumns, r \in SmoothRects : margs' = [cols |-> xs, rect |-> r]
    /\ mpc' = "called"
    /\ mout' = EmptyGrid
    /\ UNCHANGED <<genvars, refvars, gridvars, objvars, valvars, tilevars, seamvars, edgevars, chainvars>>

\* the pass ends; grid is as the loop left it
SmoothReturn ==
    /\ mpc = "called"
    /\ mout' = SmoothSilhouette(SmoothGrid(margs.cols), margs.rect)
    /\ mpc' = "returned"
    /\ UNCHANGED <<margs, genvars, refvars, gridvars, objvars, valvars, tilevars, seamvars, edgevars, chainvars>>

SmoothNext == SmoothCall \/ SmoothReturn

(***************************************************************************)
(* Properties of generate_level                                            *)
(***************************************************************************)

\* C1: whenever generate_level returns, the validator (player height 2,
\* limits from spec) run on result.grid reports reachable, and result.report
\* is that report.
ReturnedGridIsReachable ==
    pc = "returned" =>
        LET report == Validate(result.grid, PlayerCfg(spec))
        IN  report.reachable /\ result.report = report

\* a call that returned after an earlier attempt was thrown away
ReturnedAfterRetry ==
    /\ pc = "returned"
    /\ result.attempts > 1
    /\ result.report.reachable
    /\ result.report.path_length > 1

\* C2: two finished calls with the same (seed, knobs, spec) either both
\* raised or both returned equal grids, seed_used, attempts and footholds,
\* whatever calls were made before or between them.
SameInputSameOutcome ==
    \A a, b \in memo :
        (a.seed = b.seed /\ a.knobs = b.knobs /\ a.spec = b.spec) =>
            /\ a.outcome = b.outcome
            /\ a.result.grid = b.result.grid
            /\ a.result.seed_used = b.result.seed_used
            /\ a.result.attempts = b.result.attempts
            /\ a.result.footholds = b.result.footholds

\* the same input returned twice, with a call of another input in between
RepeatedCallReturned ==
    \E a, b, c \in memo :
        /\ a.call < c.call /\ c.call < b.call
        /\ a.seed = b.seed /\ a.knobs = b.knobs /\ a.spec = b.spec
        /\ c.seed # a.seed
        /\ a.outcome = "returned" /\ b.outcome = "returned"
        /\ a.result.grid = b.result.grid

\* C3: a returned result has exactly knobs.target_foothold_count footholds.
FootholdCountIsTarget ==
    pc = "returned" => Len(result.footholds) = knobs.target_foothold_count

\* a returned chain of three footholds, as asked
ReturnedThreeFootholds ==
    /\ pc = "returned"
    /\ knobs.target_foothold_count = 3
    /\ Len(result.footholds) = 3

\* C4: in a returned result the first foothold's left edge is in 2 .. 5 and
\* the last foothold's left edge is at least 26.
FirstAndLastEdges ==
    pc = "returned" =>
        /\ result.footholds[1].x \in 2 .. 5
        /\ result.footholds[Len(result.footholds)].x >= GOAL_X_MIN

\* a returned chain whose last foothold starts exactly at column 26
ReturnedLastAtGoalMin ==
    /\ pc = "returned"
    /\ Len(result.footholds) >= 2
    /\ result.footholds[1].x \in 2 .. 5
    /\ result.footholds[Len(result.footholds)].x = GOAL_X_MIN

\* the attempts a running call can still make, plus one for the raise
AttemptsLeft == IF pc = "running" THEN MAX_RETRIES + 1 - attempt ELSE 0

\* the most draws one attempt makes: three for the first foothold, then at
\* most MAX_STEP_TRIES samples for each further foothold
MaxDraws ==
    3 + Max2(0, knobs.target_foothold_count - 1)
            * MAX_STEP_TRIES * DrawsPerTry(knobs, spec)

\* the attempt's chain is complete and its grid validates reachable
AttemptSucceeds(out) ==
    out.ok /\ Validate(FootholdsToGrid(out.footholds), PlayerCfg(spec)).reachable

\* attempt number k returns if it succeeds and hands over to k + 1 if not
AttemptEnds(k, succeeds) ==
    /\ rng'.key = seed + k
    /\ rng'.ctr <= MaxDraws
    /\ succeeds => /\ pc' = "returned"
                   /\ result'.attempts = k + 1
                   /\ result'.seed_used = seed + k
    /\ ~succeeds => /\ pc' = "running"
                    /\ attempt' = k + 1

OutsideRectPreserved ==
    rpc = "succeeded" =>
        \A i \in CellIdx :
            ~Contains(rargs.rect, i % W, i \div W) => rout.grid[i] = rargs.grid[i]

\* a success with a secret platform and smoothing asked for, START inside
\* rect, and the inside of rect rewritten
RefinedWithStartInside ==
    /\ rpc = "succeeded"
    /\ rargs.request.add_secret
    /\ rargs.request.smooth_silhouette
    /\ rprep.start_inside
    /\ \E i \in CellIdx : rout.grid[i] # rargs.grid[i]

\* C6: after a successful refine_region with seam_entry = (ex, ey), the cell
\* (ex, ey+1) contains SOLID and the cell (ex, ey) does not contain SOLID.
SeamEntryLocked ==
    rpc = "succeeded" =>
        LET ex == rout.report.seam_entry[1]
            ey == rout.report.seam_entry[2]
        IN  /\ And(Get(rout.grid, ex, ey + 1), SOLID) # 0
            /\ And(Get(rout.grid, ex, ey), SOLID) = 0

\* C7: refine_region ends after at most 30 attempts (every step of the
\* retry loop either returns or uses up one of the 30 attempts), and a
\* failure returns a grid equal to the original in all cells with a
\* non-empty list of reasons.
RefineEndsAndFailureKeepsGrid ==
    /\ [](/\ rattempt <= MAX_INNER_RETRIES
          /\ rpc = "failed" =>
                /\ rout.report.success = FALSE
                /\ rout.grid = rargs.grid
                /\ rout.report.reasons # <<>>)
    /\ [][rpc = "looping" =>
            \/ rpc' \in {"succeeded", "failed"}
            \/ rpc' = "looping" /\ rattempt' = rattempt + 1]_vars

\* a failure after all 30 attempts, the original grid handed back
FailedAfterAllAttempts ==
    /\ rpc = "failed"
    /\ rattempt = MAX_INNER_RETRIES
    /\ rprep.seam_entry # NoPos
    /\ \A i \in CellIdx : rout.grid[i] = rargs.grid[i]
    /\ Len(rout.report.reasons) = 1

\* C8: refine_region reports success only for a grid the validator finds
\* reachable; report.reachability is that report and both seams are set.
SuccessIsReachable ==
    rpc = "succeeded" =>
        LET report == Validate(rout.grid, PlayerCfg(rargs.spec))
        IN  /\ rout.report.success
            /\ report.reachable
            /\ rout.report.reachability = report
            /\ rout.report.seam_entry # NoPos
            /\ rout.report.seam_exit # NoPos

\* a success on a later attempt, after earlier attempts were thrown away
RefinedAfterRetry ==
    /\ rpc = "succeeded"
    /\ rattempt > 0
    /\ rout.report.reachability.reachable
    /\ rout.report.inner_footholds >= 2

(***************************************************************************)
(* Properties of the serialisation                                         *)
(***************************************************************************)

\* C9: for every grid reached by grid operations, fromJSON(toJSON(g)) equals
\* g in all 1024 cells, and toJSON(g) carries width 32, height 32 and
\* exactly 1024 row-major cell bytes.
RoundTrip ==
    LET d == ToJSON(cells)
        dec == B64Decode(d.cells)
        back == FromJSON(d)
    IN  /\ d.width = 32 /\ d.height = 32
        /\ dec.ok /\ Len(dec.raw) = 1024
        /\ \A x \in 0 .. (W - 1), y \in 0 .. (H - 1) :
                dec.raw[y * W + x + 1] = Get(cells, x, y)
        /\ back.error = "none"
        /\ \A i \in CellIdx : back.grid[i] = cells[i]

\* fromJSON gave back a grid with marked cells, one of them carrying bits
\* above the six flags
LoadedMarkedGrid ==
    /\ ret.op = "fromJSON"
    /\ ret.error = "none"
    /\ ret.grid = cells
    /\ Get(cells, 31, 0) = 193
    /\ Get(cells, 5, 7) # Get(cells, 7, 5)

\* C10: fromJSON fails with a ValueError and gives no grid whenever the
\* payload's width is not 32, or its height is not 32, or its decoded bytes
\* are not exactly 1024; it succeeds only when all three hold.
FromJSONRejectsBadSizes ==
    ret.op = "fromJSON" =>
        LET dec == B64Decode(ret.data.cells)
            sized == /\ ret.data.width = 32
                     /\ ret.data.height = 32
                     /\ dec.ok /\ Len(dec.raw) = 1024
        IN  /\ sized => (ret.error = "none" /\ DOMAIN ret.grid = CellIdx)
            /\ ~sized => (ret.error = "ValueError" /\ ret.grid = <<>>)

\* fromJSON refused a payload of the right width and height whose cells
\* decode to 1023 bytes
RejectedShortCells ==
    /\ ret.op = "fromJSON"
    /\ ret.error = "ValueError"
    /\ ret.data.width = 32 /\ ret.data.height = 32
    /\ B64Decode(ret.data.cells).ok
    /\ Len(B64Decode(ret.data.cells).raw) = 1023


(***************************************************************************)
(* Properties of SemanticGrid32 objects                                    *)
(***************************************************************************)

Mutators == {"set", "addFlags", "removeFlags", "fill", "clear", "applyRect"}

\* C11: h = g.copy() equals g when it is made; afterwards a mutating call
\* on h leaves every cell of g as it was, and a mutating call on g leaves
\* every cell of h as it was.
CopyIsIndependent ==
    /\ [](last.op = "copy" => heap[h_cells] = heap[g_cells])
    /\ [][(h_cells' # 0 /\ last'.op \in Mutators) =>
            /\ last'.target = "h" => heap'[g_cells'] = heap[g_cells]
            /\ last'.target = "g" => heap'[h_cells'] = heap[h_cells]]_vars

\* both objects were mutated after the copy and now differ in two cells
CopyDivergedBothWays ==
    /\ h_cells # 0
    /\ last.target = "h" /\ last.op = "set"
    /\ Get(heap[h_cells], 5, 7) = SOLID
    /\ Get(heap[g_cells], 5, 7) = GOAL
    /\ Get(heap[g_cells], 31, 3) = HAZARD
    /\ Get(heap[h_cells], 31, 3) = EMPTY

\* C12: applyRect(x, y, w, h, flags, mode) never fails, whatever integers
\* x, y, w, h are; every cell of the grid with x <= cx < x + w and
\* y <= cy < y + h becomes flags (overwrite), old OR flags (add) or
\* old AND NOT flags (remove), and every other cell keeps its value.
ApplyRectClips ==
    [][last'.op = "applyRect" =>
        LET a == last'.args
            old == heap[g_cells]
            new == heap'[g_cells']
        IN  /\ last'.error = "none"
            /\ \A cx \in 0 .. (W - 1), cy \in 0 .. (H - 1) :
                  Get(new, cx, cy) =
                    IF a[1] <= cx /\ cx < a[1] + a[3] /\ a[2] <= cy /\ cy < a[2] + a[4]
                    THEN IF a[6] = "overwrite" THEN a[5]
                         ELSE IF a[6] = "add" THEN Or(Get(old, cx, cy), a[5])
                         ELSE AndNot(Get(old, cx, cy), a[5])
                    ELSE Get(old, cx, cy)]_vars

\* a rectangle with a negative origin was added over an earlier overwrite:
\* the corner cell holds both, the cell next to the clipped part nothing
ClippedAtTheCorner ==
    /\ last.op = "applyRect" /\ last.args = <<-2, -1, 4, 3, SOLID, "add">>
    /\ Get(heap[g_cells], 0, 0) = SOLID + HAZARD + GOAL
    /\ Get(heap[g_cells], 2, 0) = EMPTY
    /\ Get(heap[g_cells], 31, 31) = HAZARD + GOAL

\* C13: after any sequence of set, addFlags, removeFlags, fill, clear,
\* applyRect and fromJSON calls with arbitrary integer flags, every stored
\* cell is a subset of the six defined flags: value AND 0xC0 = 0.
StoredFlagsAreDefined ==
    /\ \A i \in CellIdx : And(cells[i], 192) = 0
    /\ (ret.op = "fromJSON" /\ ret.error = "none") =>
            \A i \in CellIdx : And(ret.grid[i], 192) = 0

\* C14: get, set, addFlags and removeFlags fail with the out-of-bounds
\* error exactly when x or y is outside 0 .. 31, negative values included;
\* a failed call changes no cell, a successful one at most the cell (x, y).
BoundsErrorExactly ==
    [][last'.op \in {"get", "set", "addFlags", "removeFlags"} =>
        LET x == last'.args[1]
            y == last'.args[2]
            off == x < 0 \/ x > 31 \/ y < 0 \/ y > 31
            old == heap[g_cells]
            new == heap'[g_cells']
        IN  /\ last'.error = (IF off THEN "IndexError" ELSE "none")
            /\ off => new = old
            /\ ~off => new = [old EXCEPT ![y * 32 + x] = new[y * 32 + x]]]_vars

\* a call with a negative x failed after an earlier call had marked a cell
FailedLeftOfTheGrid ==
    /\ last.op = "addFlags" /\ last.args = <<-1, 7, SOLID>>
    /\ last.error = "IndexError"
    /\ Get(heap[g_cells], 5, 7) = SOLID


(***************************************************************************)
(* Properties of ReachabilityValidator.validate                            *)
(***************************************************************************)

\* the endpoints validate searched between
ValStart == IF vargs.start = NoArg THEN FindFlag(vargs.grid, START) ELSE vargs.start
ValGoal == IF vargs.goal = NoArg THEN FindFlag(vargs.grid, GOAL) ELSE vargs.goal
EndpointsValid(valid, start, goal) ==
    /\ InBounds(start[1], start[2]) /\ start \in valid
    /\ InBounds(goal[1], goal[2]) /\ goal \in valid

\* C15: every report validate returns with reachable = false carries at
\* least one reason, whichever branch produced it (a missing marker, an
\* endpoint that is no valid standing position, no path).
UnreachableHasReasons ==
    (vpc = "returned" /\ ~vout.report.reachable) => vout.report.reasons # <<>>

\* validate found no path between two valid endpoints and said why
NoPathDiagnosed ==
    /\ vpc = "returned"
    /\ EndpointsValid(ValidSet(vargs.grid, ValCfg), ValStart, ValGoal)
    /\ ~vout.report.reachable
    /\ Len(vout.report.reasons) >= 2
    /\ vout.report.reasons[1].text = "GOAL unreachable from START"

\* C16: validate never fails with an error, whatever the grid and whatever
\* the START and GOAL overrides, inside the grid or outside it: every call
\* ends by returning a report.
ValidateAlwaysReturns == vpc # "raised"

\* an edge of the movement graph
Edge(g, cfg, valid, p, q) ==
    /\ InBounds(q[1], q[2])
    /\ q \in valid
    /\ Abs(q[1] - p[1]) <= cfg.max_jump_distance
    /\ q[2] - p[2] >= -cfg.max_jump_height
    /\ q[2] - p[2] <= cfg.max_safe_drop
    /\ CorridorOk(g, cfg, p[1], p[2], q[1], q[2])

\* the least number of nodes on a path from the first frontier to goal, 0
\* when there is none; n is the number of nodes on a path to the frontier
RECURSIVE LeastNodes(_, _, _, _, _, _, _)
LeastNodes(g, cfg, valid, frontier, seen, goal, n) ==
    IF goal \in frontier THEN n
    ELSE IF frontier = {} THEN 0
    ELSE LET next == {q \in valid \ seen : \E p \in frontier : Edge(g, cfg, valid, p, q)}
         IN  LeastNodes(g, cfg, valid, next, seen \cup next, goal, n + 1)

ShortestPathMatches(g, cfg, valid, start, goal, least) ==
    /\ vout.report.reachable <=> least > 0
    /\ vout.report.reachable =>
          /\ vout.report.path_length = least
          /\ Len(vout.path) = least
          /\ vout.path[1] = start
          /\ vout.path[Len(vout.path)] = goal
          /\ \A i \in 1 .. (Len(vout.path) - 1) :
                Edge(g, cfg, valid, vout.path[i], vout.path[i + 1])

ShortestBetween(g, cfg, valid, start, goal) ==
    EndpointsValid(valid, start, goal)
        => ShortestPathMatches(g, cfg, valid, start, goal,
                               LeastNodes(g, cfg, valid, {start}, {start}, goal, 1))

\* C20: between two valid endpoints validate reports reachable exactly when
\* the movement graph has a directed path from START to GOAL; path_length
\* is then the least number of nodes of such a path, and the path found
\* starts at START, ends at GOAL and follows movement-graph edges only.
BfsFindsShortestPath ==
    vpc = "returned"
        => ShortestBetween(vargs.grid, ValCfg, ValidSet(vargs.grid, ValCfg),
                           ValStart, ValGoal)

\* a path of several hops was found
FoundMultiHopPath ==
    /\ vpc = "returned"
    /\ vout.report.reachable
    /\ vout.report.path_length >= 4
    /\ vout.path[1] = ValStart
    /\ vout.path[Len(vout.path)] = ValGoal

(***************************************************************************)
(* Properties of SemanticToTilemap.convert                                 *)
(***************************************************************************)

\* the flags in precedence order, and the tile each one stands for
Precedence == <<SOLID, HAZARD, ONEWAY, LADDER, GOAL, START>>
FlagTile(k, i) ==
    CASE Precedence[k] = SOLID -> SolidTile(tile_ids, tgrid, i % W, i \div W)
      [] Precedence[k] = HAZARD -> tile_ids.hazard
      [] Precedence[k] = ONEWAY -> tile_ids.oneway
      [] Precedence[k] = LADDER -> tile_ids.ladder
      [] Precedence[k] = GOAL -> tile_ids.goal_marker
      [] Precedence[k] = START -> tile_ids.start_marker

\* the flags of Precedence present in cell i, by position
Present(i) == {k \in 1 .. 6 : And(tgrid[i], Precedence[k]) # 0}
\* a marker whose configured tile ID is 0 places no tile
Unplaced(k) ==
    \/ Precedence[k] = GOAL /\ tile_ids.goal_marker = 0
    \/ Precedence[k] = START /\ tile_ids.start_marker = 0

\* C18 as stated: every cell maps to the tile of its highest-precedence
\* flag, and to the empty tile when that flag is GOAL (START) and
\* goal_marker (start_marker) is 0, or when no flag is present.
HighestFlagDecides ==
    tpc = "converted" =>
        \A i \in CellIdx :
            tiles[i] = IF Present(i) = {} THEN tile_ids.empty
                       ELSE IF Unplaced(SetMin(Present(i))) THEN tile_ids.empty
                       ELSE FlagTile(SetMin(Present(i)), i)

\* C18 as amended: GOAL (START) is skipped when goal_marker (start_marker)
\* is 0; every cell maps to the tile of the highest-precedence flag that is
\* present and not skipped, and to the empty tile when there is none.
HighestPlacedFlagDecides ==
    tpc = "converted" =>
        \A i \in CellIdx :
            LET placed == {k \in Present(i) : ~Unplaced(k)}
            IN  tiles[i] = IF placed = {} THEN tile_ids.empty
                           ELSE FlagTile(SetMin(placed), i)

\* a cell bearing GOAL and START, converted with goal_marker 0 and a start
\* marker tile, shows the start marker; a cell bearing GOAL alone is empty
SkippedGoalShowsStart ==
    /\ tpc = "converted"
    /\ tile_ids.goal_marker = 0
    /\ tile_ids.start_marker # 0
    /\ \E i \in CellIdx : tgrid[i] = GOAL + START /\ tiles[i] = tile_ids.start_marker
    /\ \E i \in CellIdx : tgrid[i] = GOAL /\ tiles[i] = tile_ids.empty

(***************************************************************************)
(* Properties of the START and GOAL markers                                *)
(***************************************************************************)

\* the cells of g that bear flag
Bearing(g, flag) == {i \in CellIdx : And(g[i], flag) # 0}
OneStartOneGoal(g) ==
    Cardinality(Bearing(g, START)) = 1 /\ Cardinality(Bearing(g, GOAL)) = 1

\* C19: a grid generate_level returns has exactly one cell bearing START
\* and exactly one bearing GOAL, and they are different cells; the grid of a
\* successful refine_region of a grid with one START and one GOAL has one of
\* each again, wherever the original markers were.
MarkersStayUnique ==
    /\ pc = "returned" =>
          /\ OneStartOneGoal(result.grid)
          /\ Bearing(result.grid, START) # Bearing(result.grid, GOAL)
    /\ (rpc = "succeeded" /\ OneStartOneGoal(rargs.grid)) => OneStartOneGoal(rout.grid)

\* a success that cleared the START marker with rect and placed it again on
\* another cell
StartPlacedAgain ==
    /\ rpc = "succeeded"
    /\ rprep.start_inside
    /\ OneStartOneGoal(rargs.grid)
    /\ Bearing(rout.grid, START) # Bearing(rargs.grid, START)
    /\ Bearing(rout.grid, GOAL) = Bearing(rargs.grid, GOAL)

(***************************************************************************)
(* Properties of seam detection                                            *)
(***************************************************************************)

\* the positions the validator reaches from START in its movement graph
ValidatorReach(g, cfg, valid, start) ==
    IF start = NoPos \/ start \notin valid THEN {}
    ELSE ReachSet(g, valid, cfg, {start}, {start})

SeamsWithin(reach) ==
    /\ sout.reachable = reach
    /\ sout.seam_entry # NoPos => sout.seam_entry \in reach
    /\ sout.seam_exit # NoPos => sout.seam_exit \in reach

\* C21: the set seam detection treats as reachable from START on the
\* original grid is exactly the set the validator's movement graph reaches
\* from START on that grid, so every seam_entry and seam_exit returned is a
\* position the validator reaches from START.
SeamReachIsValidatorReach ==
    spc = "returned" =>
        SeamsWithin(ValidatorReach(sargs.grid, PlayerCfg(RefSpec),
                                   ValidSet(sargs.grid, PlayerCfg(RefSpec)),
                                   FindFlagPos(sargs.grid, START)))

(***************************************************************************)
(* Properties of the movement graph                                        *)
(***************************************************************************)

\* the positions whose own feet cell bears HAZARD in g
HazardFeet(g) == {<<i % W, i \div W>> : i \in {j \in CellIdx : And(g[j], HAZARD) # 0}}

\* the cells the body passes on the move from p to q, as _corridor_ok
\* samples them
Swept(cfg, p, q) ==
    LET dx == q[1] - p[1]
        feet == IF dx = 0
                THEN {<<p[1], cy>> : cy \in Min2(p[2], q[2]) .. Max2(p[2], q[2])}
                ELSE {<<p[1] + (IF dx > 0 THEN k ELSE -k),
                        Round(p[2] * Abs(dx) + k * (q[2] - p[2]), Abs(dx))>> :
                            k \in 0 .. Abs(dx)}
    IN  {c \in UNION {{<<f[1], f[2] - dh>> : dh \in 0 .. (cfg.height - 1)} : f \in feet} :
            InBounds(c[1], c[2])}

\* C22: HAZARD never blocks an edge.  On two grids that differ only in
\* HAZARD flags the corridor predicate gives the same result for every
\* target; a position is valid on one and not on the other only when its
\* own feet cell bears HAZARD there; and a target valid on both is a
\* neighbour on both or on neither.
HazardNeverBlocksAnEdge ==
    epc = "answered" =>
        /\ eout[1].corridor = eout[2].corridor
        /\ eout[1].valid \ eout[2].valid \subseteq HazardFeet(HazardGrid)
        /\ eout[2].valid \ eout[1].valid \subseteq HazardFeet(eargs.base)
        /\ eout[1].nbrs \cap eout[2].valid = eout[2].nbrs \cap eout[1].valid

\* a jump is an edge although the body passes cells bearing HAZARD, none of
\* them bearing SOLID, and a position with HAZARD at its feet is no target
JumpThroughHazardAir ==
    /\ epc = "answered"
    /\ eargs.src \in eout[2].valid
    /\ \E q \in eout[2].nbrs :
          /\ \E c \in Swept(ValCfg, eargs.src, q) : And(Get(HazardGrid, c[1], c[2]), HAZARD) # 0
          /\ \A c \in Swept(ValCfg, eargs.src, q) : And(Get(HazardGrid, c[1], c[2]), SOLID) = 0
    /\ eout[1].nbrs \ eout[2].nbrs # {}

\* the cell under the feet of the upper of two positions in one column
SupportOfUpper(g, p, q) == Get(g, p[1], Min2(p[2], q[2]) + 1)

VerticalOnlyOverOneway(g, out) ==
    eargs.src \in out.valid =>
        \A q \in out.nbrs :
            q[1] = eargs.src[1] =>
                /\ And(SupportOfUpper(g, eargs.src, q), ONEWAY) # 0
                /\ And(SupportOfUpper(g, eargs.src, q), SOLID) = 0

\* C29: a pure vertical edge between two valid positions exists only if
\* the cell under the feet of the upper position bears ONEWAY and no SOLID:
\* no move goes straight up onto, or straight down off, a SOLID-floored
\* position in the same column.
VerticalEdgeNeedsOneway ==
    epc = "answered" =>
        /\ VerticalOnlyOverOneway(eargs.base, eout[1])
        /\ VerticalOnlyOverOneway(HazardGrid, eout[2])

\* from the floor, the position on the ONEWAY ledge straight above is a
\* neighbour
JumpedUpThroughOneway ==
    /\ epc = "answered"
    /\ eargs.src = <<11, 30>>
    /\ eargs.src \in eout[1].valid
    /\ <<11, 26>> \in eout[1].nbrs
    /\ And(Get(eargs.base, 11, 27), ONEWAY) # 0

(***************************************************************************)
(* Properties of the foothold chains                                       *)
(***************************************************************************)

\* the chain of the attempt refine_region accepted
AcceptedChain ==
    GenerateInnerFootholds(Random(rargs.seed + rattempt), rprep.inner_knobs,
                           rargs.spec, rargs.rect, rprep.seam_entry,
                           rprep.seam_exit).footholds

\* two footholds whose column ranges overlap
Overlap(a, b) == XCols(a) \cap XCols(b) # {}

\* no two footholds of the chain, neighbours or not, are in clearance
\* conflict
NoConflict(fhs) ==
    \A i, j \in 1 .. Len(fhs) :
        i # j /\ Overlap(fhs[i], fhs[j]) => SurfaceY(fhs[i]) \notin (fhs[j].y - 1) .. fhs[j].y

\* C23: in every foothold list generate_level returns and every inner chain
\* refine_region accepts, no two footholds are in clearance conflict:
\* whenever the column ranges of two of them overlap, the surface row y+1 of
\* neither lies in the clearance rows y-1 .. y of the other.
NoClearanceConflict ==
    /\ pc = "returned" => NoConflict(result.footholds)
    /\ rpc = "succeeded" => NoConflict(AcceptedChain)

\* a returned chain with two footholds over shared columns, three rows or
\* more apart
StackedFootholds ==
    /\ pc = "returned"
    /\ \E i, j \in 1 .. Len(result.footholds) :
          /\ Overlap(result.footholds[i], result.footholds[j])
          /\ result.footholds[i].y - result.footholds[j].y >= 3

\* a foothold within the columns 0 .. W - 2 and the feet rows
\* PLAYER_HEIGHT .. H - 3
WithinGrid(fh) ==
    /\ 0 <= fh.x
    /\ fh.x + fh.width - 1 <= W - 2
    /\ PLAYER_HEIGHT <= fh.y
    /\ fh.y <= H - 3

\* C24: every foothold of a returned result, the first one included,
\* satisfies 0 <= x, x + width - 1 <= 30 and 2 <= y <= 29, for all knobs
\* for which a result is returned: no surface overlaps the safety floor at
\* row 31 and no player head leaves the top of the grid.
FootholdsWithinGrid ==
    pc = "returned" =>
        \A i \in 1 .. Len(result.footholds) :
            /\ WithinGrid(result.footholds[i])
            /\ SurfaceY(result.footholds[i]) < H - 1
            /\ result.footholds[i].y - PLAYER_HEIGHT + 1 >= 0

\* a returned chain whose first foothold was drawn wider than the grid
\* allows and clamped to end at column W - 3
FirstFootholdClamped ==
    /\ pc = "returned"
    /\ result.footholds[1].width = W - 2 - result.footholds[1].x
    /\ result.footholds[1].width < knobs.max_foothold_width
    /\ Right(result.footholds[1]) = W - 3

\* the step from foothold a to the next foothold b: forward by 1 ..
\* max_jump_distance, up by at most round(max_jump_height * verticality),
\* down by at most round(max_safe_drop * verticality)
BoundedStep(a, b) ==
    /\ 1 <= b.x - a.x
    /\ b.x - a.x <= spec.max_jump_distance
    /\ -Round(spec.max_jump_height * knobs.verticality, 8) <= b.y - a.y
    /\ b.y - a.y <= Round(spec.max_safe_drop * knobs.verticality, 8)

\* C25: forward progress and bounded jump geometry.  For consecutive
\* footholds f[i-1], f[i] of a returned result, 1 <= f[i].x - f[i-1].x <=
\* max_jump_distance and -max_up <= f[i].y - f[i-1].y <= max_down, with
\* max_up = round(max_jump_height * verticality) and max_down =
\* round(max_safe_drop * verticality); left edges strictly increase.
BoundedJumpGeometry ==
    pc = "returned" =>
        /\ \A i \in 2 .. Len(result.footholds) :
              BoundedStep(result.footholds[i - 1], result.footholds[i])
        /\ \A i, j \in 1 .. Len(result.footholds) :
              i < j => result.footholds[i].x < result.footholds[j].x

\* a returned chain with a step of the full distance and a step of the
\* full rise, which is less than max_jump_height
FullLengthSteps ==
    /\ pc = "returned"
    /\ Round(spec.max_jump_height * knobs.verticality, 8) \in 1 .. (spec.max_jump_height - 1)
    /\ \E i \in 2 .. Len(result.footholds) :
          result.footholds[i].x - result.footholds[i - 1].x = spec.max_jump_distance
    /\ \E i \in 2 .. Len(result.footholds) :
          result.footholds[i - 1].y - result.footholds[i].y
              = Round(spec.max_jump_height * knobs.verticality, 8)

\* column c of foothold fh is a standing position of g: SOLID under the
\* feet, none in the feet cell and the head cell
StandingColumn(g, fh, c) ==
    /\ And(Get(g, c, fh.y + 1), SOLID) # 0
    /\ And(Get(g, c, fh.y), SOLID) = 0
    /\ And(Get(g, c, fh.y - 1), SOLID) = 0

\* C28: in every grid generate_level returns, for every foothold of the
\* result and every column c of it, the cell (c, y+1) contains SOLID and
\* the cells (c, y) and (c, y-1) contain none: materialisation lets no
\* foothold's clearance erase, and no foothold's surface fill, cells
\* another foothold needs.
FootholdColumnsStandable ==
    pc = "returned" =>
        \A i \in 1 .. Len(result.footholds) :
            \A c \in XCols(result.footholds[i]) :
                StandingColumn(result.grid, result.footholds[i], c)

\* a returned grid where one foothold's surface row is the row above the
\* head of a foothold sharing a column with it
SurfaceAboveHead ==
    /\ pc = "returned"
    /\ \E i, j \in 1 .. Len(result.footholds) :
          /\ Overlap(result.footholds[i], result.footholds[j])
          /\ SurfaceY(result.footholds[i]) = result.footholds[j].y - PLAYER_HEIGHT

\* call b is generate_level(a.result.seed_used, knobs, spec) for the knobs
\* and spec of the returned call a
CalledWithSeedUsed(a, b) ==
    /\ a.outcome = "returned"
    /\ b.seed = a.result.seed_used
    /\ b.knobs = a.knobs
    /\ b.spec = a.spec

\* C30: retry transparency.  If generate_level(seed, knobs, spec) returns
\* r, then generate_level(r.seed_used, knobs, spec) returns a result with
\* attempts = 1, seed_used = r.seed_used and a grid and foothold list equal
\* to r's: the outcome of attempt k depends on seed + k only, never on the
\* failed attempts before it.
RetryTransparency ==
    \A a, b \in memo :
        CalledWithSeedUsed(a, b) =>
            /\ b.outcome = "returned"
            /\ b.result.attempts = 1
            /\ b.result.seed_used = a.result.seed_used
            /\ b.result.grid = a.result.grid
            /\ b.result.footholds = a.result.footholds

\* a call that returned after a failed attempt, and a call with the seed
\* it used
RetriedThenCalledDirectly ==
    \E a, b \in memo :
        /\ CalledWithSeedUsed(a, b)
        /\ a.result.attempts > 1
        /\ a.seed # b.seed

(***************************************************************************)
(* Properties of the inner chain                                           *)
(***************************************************************************)

\* C27: in every inner chain refine_region builds, the entry foothold has
\* its left edge at seam_entry.x and its feet row at seam_entry.y, its right
\* edge x + w - 1 is at most rect.right, and its width is never below
\* knobs.min_foothold_width, for every rect and every seam position, a
\* fallback seam close to rect's right edge included.
EntryFootholdKeepsMinWidth ==
    ipc = "returned" /\ iout.ok =>
        /\ iout.footholds[1].x = iout.seam_entry[1]
        /\ iout.footholds[1].y = iout.seam_entry[2]
        /\ Right(iout.footholds[1]) <= RectRight(iargs.rect)
        /\ iout.footholds[1].width >= iargs.knobs.min_foothold_width

\* the entry foothold is where the claim puts it and ends within rect
EntryFootholdAtSeam ==
    ipc = "returned" /\ iout.ok =>
        /\ iout.footholds[1].x = iout.seam_entry[1]
        /\ iout.footholds[1].y = iout.seam_entry[2]
        /\ Right(iout.footholds[1]) <= RectRight(iargs.rect)

(***************************************************************************)
(* Properties of the smoothing pass                                        *)
(***************************************************************************)

\* column c of rect's top row bears SOLID in g
TopSolid(g, rect, c) == And(Get(g, c, rect.y), SOLID) # 0

\* a column next to c, inside rect, bears SOLID in rect's top row
SolidBeside(g, rect, c) ==
    \E d \in {c - 1, c + 1} \cap (rect.x .. RectRight(rect)) : TopSolid(g, rect, d)

\* the cells of rect's top row
TopRow(rect) == {Index(c, rect.y) : c \in rect.x .. RectRight(rect)}

Smoothed(before, after, rect) ==
    /\ \A c \in rect.x .. RectRight(rect) :
          /\ TopSolid(after, rect, c) => SolidBeside(after, rect, c)
          /\ TopSolid(before, rect, c) /\ SolidBeside(before, rect, c)
                => TopSolid(after, rect, c)
    /\ \A i \in CellIdx \ TopRow(rect) : after[i] = before[i]

\* C26: after the silhouette-smoothing pass, one in-place sweep from left
\* to right, no cell of row rect.y within rect's columns contains SOLID
\* without a horizontal neighbour inside rect in that row containing SOLID;
\* the SOLID cells that had such a neighbour before the pass keep SOLID;
\* and no cell outside row rect.y of rect is changed.
SmoothingLeavesNoLoneSolid ==
    mpc = "returned" => Smoothed(SmoothGrid(margs.cols), mout, margs.rect)

\* a pass that removed SOLID from a column and kept a pair next to it, on a
\* rect with a SOLID tile just outside its left edge
LoneSolidRemovedPairKept ==
    /\ mpc = "returned"
    /\ margs.rect.x = 11
    /\ TopSolid(SmoothGrid(margs.cols), margs.rect, 10)
    /\ TopSolid(SmoothGrid(margs.cols), margs.rect, 11)
    /\ ~TopSolid(mout, margs.rect, 11)
    /\ TopSolid(mout, margs.rect, 13) /\ TopSolid(mout, margs.rect, 14)

AllInit == GenInit /\ RefInit /\ GridInit /\ ObjInit /\ ValInit /\ TileInit /\ SeamInit /\ EdgeInit /\ ChainInit /\ SmoothInit
SpecGen == AllInit /\ [][GenNext]_vars
SpecDet == AllInit /\ [][DetNext]_vars
SpecRefine == AllInit /\ [][RefNext]_vars
SpecGrid == AllInit /\ [][GridNext]_vars
SpecCopy == AllInit /\ [][CopyNext]_vars
SpecArgs == AllInit /\ [][ArgNext]_vars
SpecValidate == AllInit /\ [][ValNext]_vars
SpecTiles == AllInit /\ [][TileNext]_vars
SpecOneCall == AllInit /\ [][OneCallNext]_vars
SpecSeams == AllInit /\ [][SeamNext]_vars
SpecEdges == AllInit /\ [][EdgeNext]_vars
SpecChains == AllInit /\ [][ChainNext]_vars
SpecSmooth == AllInit /\ [][SmoothNext]_vars

====
